---- MODULE Spec2Model ----
(***************************************************************************)
(* Document digital-signature subsystem of chat-backend/src/signature:     *)
(* KeyManager (key_manager.py), DocumentSigner (document_signer.py) and    *)
(* SignatureVerifier (signature_verifier.py) over a shared filesystem.     *)
(*                                                                         *)
(* Idealisations: a file path is the sequence of its name parts, the last  *)
(* being the extension; SHA-256 is collision free (a digest determines the *)
(* bytes it was computed from); an RSA-PSS signature verifies exactly      *)
(* under the public half of the key that made it and for the message it    *)
(* was made over.                                                          *)
(***************************************************************************)
EXTENDS Integers, Sequences, FiniteSets, TLC

\* ------------------------------------------------------------------ bounds
MaxClock == 2      \* datetime.now() is read at most this many times
ChunkSize == 1     \* bytes per f.read() while hashing (8192 in the source)
MaxKeys == 2       \* generate_key_pair() runs at most this many times
MaxLength == 3     \* bytes in the contents, and in the chunks, that hashing is tried on
MaxCalls == 2      \* calls in a row on one KeyManager

Bytes == {0, 1}
\* the contents the document a.txt takes
DocContents == {<<>>, <<0>>, <<0, 1>>}

\* ------------------------------------------------------------------- paths
\* A path is a sequence of name parts; NoPath is None (or the empty string,
\* which Python treats as false in the same places).
NoPath == <<>>
SigExt == ".sig"
DocTxt == <<"a", ".txt">>
DocBad == <<"c", ".doc">>
DirPath == <<"d", ".PDF">>
DocGone == <<"m", ".doc">>
AltSig == <<"s", ".sig">>
PrivPath == <<"keys", "private", ".pem">>
PubPath == <<"keys", "public", ".pem">>
Pub2Path == <<"other", "public", ".pem">>

\* f"{document_path}.sig"
GetSignatureFilePath(document_path) == Append(document_path, SigExt)

AllPaths ==
    {DocTxt, DocBad, DirPath, AltSig, PrivPath, PubPath, Pub2Path,
     GetSignatureFilePath(DocTxt)}

\* str.endswith('.sig'): case sensitive
EndsWithSig(path) == Len(path) >= 1 /\ path[Len(path)] = SigExt

\* path[:-4] of a path that ends with '.sig'
StripSig(path) == SubSeq(path, 1, Len(path) - 1)

\* str.lower() on an extension
Lower(ext) ==
    CASE ext = ".TXT" -> ".txt"
      [] ext = ".PDF" -> ".pdf"
      [] ext = ".ZIP" -> ".zip"
      [] OTHER -> ext

\* Path(file_path).suffix
Suffix(path) == IF Len(path) >= 2 THEN path[Len(path)] ELSE ""

\* Path(file_path).name, as a string
BaseName(path) ==
    CASE path = DocTxt -> "a.txt"
      [] path = DocBad -> "c.doc"
      [] path = DirPath -> "d.PDF"
      [] OTHER -> "other"

\* ------------------------------------------------------------ file contents
NoFile == [kind |-> "none"]
\* no file, and none can be created: the directory above refuses the write
Unwritable == [kind |-> "unwritable"]
Directory == [kind |-> "dir"]
Raw(bytes) == [kind |-> "raw", bytes |-> bytes]
\* text that json.load cannot decode (a truncated or garbled sidecar)
BadJson == [kind |-> "badjson"]
JsonFile(value) == [kind |-> "json", value |-> value]
PrivPem(key, password) == [kind |-> "privpem", key |-> key, password |-> password]
PubPem(key) == [kind |-> "pubpem", key |-> key]

\* os.path.exists
Exists(files, path) ==
    path \in DOMAIN files /\ files[path].kind \notin {"none", "unwritable"}

\* open(path, 'rb') / open(path, 'r') succeeds
CanOpenRead(files, path) == Exists(files, path) /\ files[path].kind # "dir"

\* open(path, 'w') / open(path, 'wb') succeeds
CanOpenWrite(files, path) ==
    path \in DOMAIN files /\ files[path].kind \notin {"dir", "unwritable"}

\* ----------------------------------------------------------------- hashing
Min(a, b) == IF a < b THEN a ELSE b

\* bytes.hex()
Hex(bytes) == [kind |-> "hex", of |-> bytes]
IsHex(str) == str.kind = "hex"
\* bytes.fromhex(): defined on hex strings only
FromHex(str) == str.of
NotHex == [kind |-> "nothex"]

\* a hash routine that reads once (`if chunk := f.read(8192)`) instead of
\* reading until the file ends
HashUpdateFirst(bytes, state) ==
    state \o SubSeq(bytes, 1, Min(ChunkSize, Len(bytes)))

\* the read loop of _calculate_document_hash: hash_obj.update(chunk) per chunk
RECURSIVE HashUpdateAll(_, _)
HashUpdateAll(bytes, state) ==
    IF bytes = <<>> THEN state
    ELSE LET n == Min(ChunkSize, Len(bytes))
         IN HashUpdateAll(SubSeq(bytes, n + 1, Len(bytes)),
                          state \o SubSeq(bytes, 1, n))

\* the read loop with f.read(chunk_size): what the hash object has been fed
\* when the loop ends
RECURSIVE HashInChunks(_, _, _)
HashInChunks(bytes, state, chunk_size) ==
    IF bytes = <<>> THEN state
    ELSE LET n == Min(chunk_size, Len(bytes))
         IN HashInChunks(SubSeq(bytes, n + 1, Len(bytes)),
                         state \o SubSeq(bytes, 1, n), chunk_size)

\* hashes.Hash(SHA256()) fed `fed`, finalized and hex-encoded
HexDigestOf(fed) == Hex([kind |-> "sha256", bytes |-> fed, obj |-> NoFile])

\* hash_obj.finalize(): the digest stands for the bytes fed to the hash; a
\* file that is not plain bytes (a sidecar, a key file) is fed as one block
Digest(content) ==
    IF content.kind = "raw"
    THEN [kind |-> "sha256", bytes |-> HashUpdateAll(content.bytes, <<>>), obj |-> NoFile]
    ELSE [kind |-> "sha256", bytes |-> <<>>, obj |-> content]

\* DocumentSigner._calculate_document_hash: raises when the file cannot be opened
CalculateDocumentHash(files, file_path) ==
    IF CanOpenRead(files, file_path)
    THEN [ok |-> TRUE, value |-> Hex(Digest(files[file_path])), exc |-> ""]
    ELSE [ok |-> FALSE, value |-> NotHex, exc |-> "IsADirectoryError"]

\* SignatureVerifier._calculate_document_hash: the same routine, duplicated
VerifierCalculateDocumentHash(files, file_path) ==
    IF CanOpenRead(files, file_path)
    THEN [ok |-> TRUE, value |-> Hex(Digest(files[file_path])), exc |-> ""]
    ELSE [ok |-> FALSE, value |-> NotHex, exc |-> "IsADirectoryError"]

\* --------------------------------------------------------------------- keys
\* key material: where a key pair comes from, and which one it is
NoKeyId == [origin |-> "none", n |-> 0]
ForeignKey == [origin |-> "foreign", n |-> 0]
OldKey == [origin |-> "disk", n |-> 0]
NewKey(n) == [origin |-> "generated", n |-> n]

NoKey == [kind |-> "nokey", id |-> NoKeyId]
PrivKey(id) == [kind |-> "private", id |-> id]
PubKey(id) == [kind |-> "public", id |-> id]
\* private_key.public_key()
PublicOf(private_key) == PubKey(private_key.id)

NoPassword == "none"
Passwords == {NoPassword, "pw"}

\* KeyManager.__init__
NewKeyManager == [private_key |-> NoKey, public_key |-> NoKey]

\* KeyManager.generate_key_pair: id is the fresh key material
GenerateKeyPair(km, id) ==
    [private_key |-> PrivKey(id), public_key |-> PublicOf(PrivKey(id))]

\* KeyManager.save_private_key: [ok, files]
SavePrivateKey(km, files, filepath, password) ==
    IF km.private_key = NoKey THEN [ok |-> FALSE, files |-> files]
    ELSE IF ~CanOpenWrite(files, filepath) THEN [ok |-> FALSE, files |-> files]
    ELSE [ok |-> TRUE,
          files |-> [files EXCEPT ![filepath] = PrivPem(km.private_key.id, password)]]

\* a save_public_key that leaves a file that is already there alone
SavePublicKeyIfAbsent(km, files, filepath) ==
    IF km.public_key = NoKey THEN [ok |-> FALSE, files |-> files]
    ELSE IF ~CanOpenWrite(files, filepath) THEN [ok |-> FALSE, files |-> files]
    ELSE IF Exists(files, filepath) THEN [ok |-> TRUE, files |-> files]
    ELSE [ok |-> TRUE,
          files |-> [files EXCEPT ![filepath] = PubPem(km.public_key.id)]]

\* KeyManager.save_public_key: [ok, files]
SavePublicKey(km, files, filepath) ==
    IF km.public_key = NoKey THEN [ok |-> FALSE, files |-> files]
    ELSE IF ~CanOpenWrite(files, filepath) THEN [ok |-> FALSE, files |-> files]
    ELSE [ok |-> TRUE,
          files |-> [files EXCEPT ![filepath] = PubPem(km.public_key.id)]]

\* a load_private_key that drops the keys it held before it tries to load
LoadPrivateKeyClearing(km, files, filepath, password) ==
    IF ~Exists(files, filepath) THEN [ok |-> FALSE, km |-> km]
    ELSE IF files[filepath].kind = "privpem" /\ files[filepath].password = password
    THEN [ok |-> TRUE,
          km |-> [private_key |-> PrivKey(files[filepath].key),
                  public_key |-> PublicOf(PrivKey(files[filepath].key))]]
    ELSE [ok |-> FALSE, km |-> NewKeyManager]

\* KeyManager.load_private_key: [ok, km]; km is untouched on failure
LoadPrivateKey(km, files, filepath, password) ==
    IF ~Exists(files, filepath) THEN [ok |-> FALSE, km |-> km]
    ELSE IF files[filepath].kind = "privpem" /\ files[filepath].password = password
    THEN [ok |-> TRUE,
          km |-> [private_key |-> PrivKey(files[filepath].key),
                  public_key |-> PublicOf(PrivKey(files[filepath].key))]]
    ELSE [ok |-> FALSE, km |-> km]

\* KeyManager.load_public_key: [ok, km]; km is untouched on failure
LoadPublicKey(km, files, filepath) ==
    IF ~Exists(files, filepath) THEN [ok |-> FALSE, km |-> km]
    ELSE IF files[filepath].kind = "pubpem"
    THEN [ok |-> TRUE, km |-> [km EXCEPT !.public_key = PubKey(files[filepath].key)]]
    ELSE [ok |-> FALSE, km |-> km]

\* public_key.public_bytes(PEM, SubjectPublicKeyInfo)
PublicBytes(public_key) == PubPem(public_key.id)

NoFingerprint == [kind |-> "nofp"]
\* a fingerprint computed over everything the manager holds, the private key
\* included
GetPublicKeyFingerprintOfManager(km) ==
    IF km.public_key = NoKey THEN NoFingerprint
    ELSE Hex(Digest([kind |-> "keys", private |-> km.private_key,
                     public |-> PublicBytes(km.public_key)]))

\* KeyManager.get_public_key_fingerprint
GetPublicKeyFingerprint(km) ==
    IF km.public_key = NoKey THEN NoFingerprint
    ELSE Hex(Digest(PublicBytes(km.public_key)))

\* KeyManager.verify_key_files_exist
VerifyKeyFilesExist(files, private_key_path, public_key_path) ==
    Exists(files, private_key_path) /\ Exists(files, public_key_path)

\* a generate_and_save_keys that does not look at what the saves returned
GenerateAndSaveKeysUnchecked(files, private_key_path, public_key_path, password, id) ==
    LET manager == GenerateKeyPair(NewKeyManager, id)
        s1 == SavePrivateKey(manager, files, private_key_path, password)
        s2 == SavePublicKey(manager, s1.files, public_key_path)
    IN [ok |-> TRUE, files |-> s2.files]

\* KeyManager.generate_and_save_keys: [ok, files]
GenerateAndSaveKeys(files, private_key_path, public_key_path, password, id) ==
    LET manager == GenerateKeyPair(NewKeyManager, id)
        s1 == SavePrivateKey(manager, files, private_key_path, password)
        s2 == SavePublicKey(manager, s1.files, public_key_path)
    IN IF ~s1.ok THEN [ok |-> FALSE, files |-> s1.files]
       ELSE IF ~s2.ok THEN [ok |-> FALSE, files |-> s2.files]
       ELSE [ok |-> TRUE, files |-> s2.files]

\* ------------------------------------------------------------------ models
\* SignatureStatus
StatusValid == "valid"
StatusInvalid == "invalid"
StatusTampered == "tampered"
StatusExpired == "expired"
StatusKeyMismatch == "key_mismatch"
NoStatus == "None"
SignatureStatus ==
    {StatusValid, StatusInvalid, StatusTampered, StatusExpired, StatusKeyMismatch}

\* DocumentType
DocumentType == {"txt", "pdf", "zip"}
NoType == "None"

DefaultAlgorithm == "RSA-PSS with SHA-256"

\* datetime.isoformat() / datetime.fromisoformat()
IsoFormat(date) == [kind |-> "iso", of |-> date]
IsIso(str) == str.kind = "iso"
FromIsoFormat(str) == str.of
NotIso == [kind |-> "notiso"]

\* additional_info dictionaries: functions from keys to values
EmptyInfo == [k \in {} |-> ""]
Unserializable == "<bytes>"
NoteInfo == [k \in {"tipo"} |-> "prueba"]
BlobInfo == [k \in {"blob"} |-> Unserializable]
JsonSerializable(info) == \A k \in DOMAIN info : info[k] # Unserializable

\* {**base, **extra}: later keys win
MergeInfo(base, extra) ==
    [k \in DOMAIN base \cup DOMAIN extra |->
        IF k \in DOMAIN extra THEN extra[k] ELSE base[k]]

NoMetadata == [kind |-> "nometa"]
\* SignatureMetadata
SignatureMetadata(name, email, date, hash, algorithm, fingerprint, info) ==
    [kind |-> "meta", signer_name |-> name, signer_email |-> email,
     signature_date |-> date, document_hash |-> hash,
     signature_algorithm |-> algorithm, key_fingerprint |-> fingerprint,
     additional_info |-> info]

MetadataKeys ==
    {"signer_name", "signer_email", "signature_date", "document_hash",
     "signature_algorithm", "key_fingerprint", "additional_info"}
RequiredMetadataKeys ==
    {"signer_name", "signer_email", "signature_date", "document_hash"}

\* SignatureMetadata.to_dict
MetadataToDict(m) ==
    [keys |-> MetadataKeys, signer_name |-> m.signer_name,
     signer_email |-> m.signer_email,
     signature_date |-> IsoFormat(m.signature_date),
     document_hash |-> m.document_hash,
     signature_algorithm |-> m.signature_algorithm,
     key_fingerprint |-> m.key_fingerprint,
     additional_info |-> m.additional_info]

\* SignatureMetadata.from_dict: KeyError on a missing required key, ValueError
\* on a date that is no ISO string; the other keys have defaults
MetadataFromDict(d) ==
    IF ~(RequiredMetadataKeys \subseteq d.keys)
    THEN [ok |-> FALSE, value |-> NoMetadata, exc |-> "KeyError"]
    ELSE IF ~IsIso(d.signature_date)
    THEN [ok |-> FALSE, value |-> NoMetadata, exc |-> "ValueError"]
    ELSE [ok |-> TRUE, exc |-> "",
          value |-> SignatureMetadata(
              d.signer_name, d.signer_email, FromIsoFormat(d.signature_date),
              d.document_hash,
              IF "signature_algorithm" \in d.keys THEN d.signature_algorithm
              ELSE DefaultAlgorithm,
              IF "key_fingerprint" \in d.keys THEN d.key_fingerprint
              ELSE NoFingerprint,
              IF "additional_info" \in d.keys THEN d.additional_info
              ELSE EmptyInfo)]

NoSignature == [kind |-> "nosig"]
\* a SignatureResult whose status defaults to VALID instead of None
SignatureResultValidByDefault(success, message, status, metadata, signature_data, signed_file_path, error) ==
    [success |-> success, message |-> message,
     status |-> IF status = NoStatus THEN StatusValid ELSE status,
     metadata |-> metadata, signature_data |-> signature_data,
     signed_file_path |-> signed_file_path, error |-> error, raised |-> FALSE]

\* SignatureResult
SignatureResult(success, message, status, metadata, signature_data, signed_file_path, error) ==
    [success |-> success, message |-> message, status |-> status,
     metadata |-> metadata, signature_data |-> signature_data,
     signed_file_path |-> signed_file_path, error |-> error, raised |-> FALSE]

\* what the caller sees when an exception leaves the call
Raised(exc) ==
    [success |-> FALSE, message |-> "", status |-> NoStatus,
     metadata |-> NoMetadata, signature_data |-> NoSignature,
     signed_file_path |-> NoPath, error |-> exc, raised |-> TRUE]

\* SignatureRequest
SignatureRequest(document_path, signer_name, signer_email, output_path, additional_info) ==
    [document_path |-> document_path, signer_name |-> signer_name,
     signer_email |-> signer_email, output_path |-> output_path,
     additional_info |-> additional_info]

\* VerificationRequest
VerificationRequest(signed_document_path, original_document_path, public_key_path) ==
    [signed_document_path |-> signed_document_path,
     original_document_path |-> original_document_path,
     public_key_path |-> public_key_path]

\* the sidecar dictionary {'signature': ..., 'metadata': ...}
SignaturePackage(signature_hex, metadata_dict) ==
    [keys |-> {"signature", "metadata"}, signature |-> signature_hex,
     metadata |-> metadata_dict]

\* a _load_keys that does not look at what load_private_key returned
LoadKeysUnchecked(files, private_key_path, public_key_path, password, id) ==
    LET missing == ~VerifyKeyFilesExist(files, private_key_path, public_key_path)
        gen == IF missing
               THEN GenerateAndSaveKeys(files, private_key_path, public_key_path,
                                        password, id)
               ELSE [ok |-> TRUE, files |-> files]
        loaded == LoadPrivateKey(NewKeyManager, gen.files, private_key_path, password)
    IN IF ~gen.ok THEN [ok |-> FALSE, km |-> NewKeyManager, files |-> gen.files]
       ELSE [ok |-> TRUE, km |-> loaded.km, files |-> gen.files]

\* ---------------------------------------------------------- DocumentSigner
\* DocumentSigner._load_keys: [ok, km, files]; id is the key material a
\* generation would produce
LoadKeys(files, private_key_path, public_key_path, password, id) ==
    LET missing == ~VerifyKeyFilesExist(files, private_key_path, public_key_path)
        gen == IF missing
               THEN GenerateAndSaveKeys(files, private_key_path, public_key_path,
                                        password, id)
               ELSE [ok |-> TRUE, files |-> files]
        loaded == LoadPrivateKey(NewKeyManager, gen.files, private_key_path, password)
    IN IF ~gen.ok THEN [ok |-> FALSE, km |-> NewKeyManager, files |-> gen.files]
       ELSE IF ~loaded.ok THEN [ok |-> FALSE, km |-> NewKeyManager, files |-> gen.files]
       ELSE [ok |-> TRUE, km |-> loaded.km, files |-> gen.files]

\* document_hash.encode('utf-8')
EncodeUtf8(str) == [kind |-> "utf8", of |-> str]

\* an RSA-PSS signature made with private key `id` over `message`
RsaPssSign(id, message) == [kind |-> "rsa-pss", key |-> id, msg |-> message]

\* public_key.verify(...): no InvalidSignature raised
RsaPssVerify(public_key, signature_data, message) ==
    /\ signature_data.kind = "rsa-pss"
    /\ signature_data.key = public_key.id
    /\ signature_data.msg = message

\* a signer that signs the hash string without encoding it as the verifier does
CreateSignatureUnencoded(km, document_hash) ==
    IF km.private_key = NoKey
    THEN [ok |-> FALSE, value |-> NoSignature, exc |-> "AttributeError"]
    ELSE [ok |-> TRUE, exc |-> "",
          value |-> RsaPssSign(km.private_key.id, document_hash)]

\* DocumentSigner._create_signature: AttributeError without a private key
CreateSignature(km, document_hash) ==
    IF km.private_key = NoKey
    THEN [ok |-> FALSE, value |-> NoSignature, exc |-> "AttributeError"]
    ELSE [ok |-> TRUE, exc |-> "",
          value |-> RsaPssSign(km.private_key.id, EncodeUtf8(document_hash))]

\* a type detection that takes every unknown extension for text
DetectDocumentTypeAny(file_path) ==
    LET extension == Lower(Suffix(file_path))
    IN CASE extension = ".pdf" -> "pdf"
         [] extension = ".zip" -> "zip"
         [] OTHER -> "txt"

\* DocumentSigner._detect_document_type
DetectDocumentType(file_path) ==
    LET extension == Lower(Suffix(file_path))
    IN CASE extension = ".txt" -> "txt"
         [] extension = ".pdf" -> "pdf"
         [] extension = ".zip" -> "zip"
         [] OTHER -> NoType

\* a _save_signature that stores the signature bytes without hex-encoding them
SaveSignatureUnencoded(files, signature_file_path, signature_data, metadata) ==
    LET signature_package ==
            SignaturePackage(signature_data, MetadataToDict(metadata))
    IN IF ~CanOpenWrite(files, signature_file_path)
       THEN [ok |-> FALSE, files |-> files, exc |-> "OSError"]
       ELSE IF ~JsonSerializable(metadata.additional_info)
       THEN [ok |-> FALSE, exc |-> "TypeError",
             files |-> [files EXCEPT ![signature_file_path] = BadJson]]
       ELSE [ok |-> TRUE, exc |-> "",
             files |-> [files EXCEPT ![signature_file_path] =
                                         JsonFile(signature_package)]]

\* DocumentSigner._save_signature: [ok, files, exc]. open(..., 'w') truncates
\* the file before json.dump runs, so a value json cannot serialise leaves
\* an undecodable file behind.
SaveSignature(files, signature_file_path, signature_data, metadata) ==
    LET signature_package ==
            SignaturePackage(Hex(signature_data), MetadataToDict(metadata))
    IN IF ~CanOpenWrite(files, signature_file_path)
       THEN [ok |-> FALSE, files |-> files, exc |-> "OSError"]
       ELSE IF ~JsonSerializable(metadata.additional_info)
       THEN [ok |-> FALSE, exc |-> "TypeError",
             files |-> [files EXCEPT ![signature_file_path] = BadJson]]
       ELSE [ok |-> TRUE, exc |-> "",
             files |-> [files EXCEPT ![signature_file_path] =
                                         JsonFile(signature_package)]]

\* a sign_document without its try/except
SignCatchNothing(exc) == Raised(exc)

\* the `except Exception as e` handler of sign_document
SignCatch(exc) ==
    SignatureResult(FALSE, "Error al firmar documento", NoStatus, NoMetadata,
                    NoSignature, NoPath, exc)

\* a sign_document that opens the sidecar for writing before it looks at the
\* document, and so leaves an emptied sidecar behind when it turns the
\* request down
SignDocumentOpeningFirst(km, request, files, now) ==
    LET target == IF request.output_path # NoPath THEN request.output_path
                  ELSE GetSignatureFilePath(request.document_path)
        opened == IF target \in DOMAIN files /\ CanOpenWrite(files, target)
                  THEN [files EXCEPT ![target] = BadJson]
                  ELSE files
    IN
    IF ~Exists(files, request.document_path)
    THEN [res |-> SignatureResult(FALSE, "Documento no encontrado", NoStatus,
                                  NoMetadata, NoSignature, NoPath,
                                  "El archivo no existe"),
          files |-> opened, stages |-> <<"exists">>]
    ELSE
    LET doc_type == DetectDocumentType(request.document_path) IN
    IF doc_type = NoType
    THEN [res |-> SignatureResult(FALSE, "Tipo de documento no soportado", NoStatus,
                                  NoMetadata, NoSignature, NoPath,
                                  "Solo se soportan archivos .txt, .pdf y .zip"),
          files |-> opened, stages |-> <<"exists", "detect">>]
    ELSE
    LET document_hash == CalculateDocumentHash(files, request.document_path) IN
    IF ~document_hash.ok
    THEN [res |-> SignCatch(document_hash.exc), files |-> files,
          stages |-> <<"exists", "detect", "hash">>]
    ELSE
    LET metadata ==
            SignatureMetadata(
                request.signer_name, request.signer_email, now,
                document_hash.value, DefaultAlgorithm,
                GetPublicKeyFingerprint(km),
                MergeInfo([k \in {"document_type", "document_name"} |->
                              IF k = "document_type" THEN doc_type
                              ELSE BaseName(request.document_path)],
                          request.additional_info))
        signature_data == CreateSignature(km, document_hash.value)
    IN
    IF ~signature_data.ok
    THEN [res |-> SignCatch(signature_data.exc), files |-> files,
          stages |-> <<"exists", "detect", "hash", "sign">>]
    ELSE
    LET signature_file_path ==
            IF request.output_path # NoPath THEN request.output_path
            ELSE GetSignatureFilePath(request.document_path)
        saved == SaveSignature(files, signature_file_path, signature_data.value,
                               metadata)
    IN
    IF ~saved.ok
    THEN [res |-> SignCatch(saved.exc), files |-> saved.files,
          stages |-> <<"exists", "detect", "hash", "sign", "save">>]
    ELSE [res |-> SignatureResult(TRUE, "Documento firmado exitosamente",
                                  StatusValid, metadata, signature_data.value,
                                  signature_file_path, ""),
          files |-> saved.files,
          stages |-> <<"exists", "detect", "hash", "sign", "save">>]

\* DocumentSigner.sign_document: [res, files, stages]; `now` is datetime.now()
SignDocument(km, request, files, now) ==
    IF ~Exists(files, request.document_path)
    THEN [res |-> SignatureResult(FALSE, "Documento no encontrado", NoStatus,
                                  NoMetadata, NoSignature, NoPath,
                                  "El archivo no existe"),
          files |-> files, stages |-> <<"exists">>]
    ELSE
    LET doc_type == DetectDocumentType(request.document_path) IN
    IF doc_type = NoType
    THEN [res |-> SignatureResult(FALSE, "Tipo de documento no soportado", NoStatus,
                                  NoMetadata, NoSignature, NoPath,
                                  "Solo se soportan archivos .txt, .pdf y .zip"),
          files |-> files, stages |-> <<"exists", "detect">>]
    ELSE
    LET document_hash == CalculateDocumentHash(files, request.document_path) IN
    IF ~document_hash.ok
    THEN [res |-> SignCatch(document_hash.exc), files |-> files,
          stages |-> <<"exists", "detect", "hash">>]
    ELSE
    LET metadata ==
            SignatureMetadata(
                request.signer_name, request.signer_email, now,
                document_hash.value, DefaultAlgorithm,
                GetPublicKeyFingerprint(km),
                MergeInfo([k \in {"document_type", "document_name"} |->
                              IF k = "document_type" THEN doc_type
                              ELSE BaseName(request.document_path)],
                          request.additional_info))
        signature_data == CreateSignature(km, document_hash.value)
    IN
    IF ~signature_data.ok
    THEN [res |-> SignCatch(signature_data.exc), files |-> files,
          stages |-> <<"exists", "detect", "hash", "sign">>]
    ELSE
    LET signature_file_path ==
            IF request.output_path # NoPath THEN request.output_path
            ELSE GetSignatureFilePath(request.document_path)
        saved == SaveSignature(files, signature_file_path, signature_data.value,
                               metadata)
    IN
    IF ~saved.ok
    THEN [res |-> SignCatch(saved.exc), files |-> saved.files,
          stages |-> <<"exists", "detect", "hash", "sign", "save">>]
    ELSE [res |-> SignatureResult(TRUE, "Documento firmado exitosamente",
                                  StatusValid, metadata, signature_data.value,
                                  signature_file_path, ""),
          files |-> saved.files,
          stages |-> <<"exists", "detect", "hash", "sign", "save">>]

\* ------------------------------------------------------- SignatureVerifier
\* SignatureVerifier.__init__: the key manager of a new verifier
NewVerifierKeys(files, public_key_path) ==
    IF public_key_path # NoPath /\ Exists(files, public_key_path)
    THEN LoadPublicKey(NewKeyManager, files, public_key_path).km
    ELSE NewKeyManager

NoPackage == [keys |-> {}, signature |-> NotHex, metadata |-> [keys |-> {}]]

\* SignatureVerifier._load_signature_file: None when the file is missing,
\* cannot be opened or is not decodable JSON
LoadSignatureFile(files, signature_file_path) ==
    IF ~Exists(files, signature_file_path) THEN [ok |-> FALSE, value |-> NoPackage]
    ELSE IF files[signature_file_path].kind = "json"
    THEN [ok |-> TRUE, value |-> files[signature_file_path].value]
    ELSE [ok |-> FALSE, value |-> NoPackage]

\* a parse step that reads the signature with a default instead of failing
ExtractSignatureLenient(signature_package) ==
    IF "signature" \notin signature_package.keys \/ ~IsHex(signature_package.signature)
    THEN [ok |-> TRUE, value |-> NoSignature, exc |-> ""]
    ELSE [ok |-> TRUE, value |-> FromHex(signature_package.signature), exc |-> ""]

\* bytes.fromhex(signature_package['signature'])
ExtractSignature(signature_package) ==
    IF "signature" \notin signature_package.keys
    THEN [ok |-> FALSE, value |-> NoSignature, exc |-> "KeyError"]
    ELSE IF ~IsHex(signature_package.signature)
    THEN [ok |-> FALSE, value |-> NoSignature, exc |-> "ValueError"]
    ELSE [ok |-> TRUE, value |-> FromHex(signature_package.signature), exc |-> ""]

\* SignatureMetadata.from_dict(signature_package['metadata'])
ExtractMetadata(signature_package) ==
    IF "metadata" \notin signature_package.keys
    THEN [ok |-> FALSE, value |-> NoMetadata, exc |-> "KeyError"]
    ELSE MetadataFromDict(signature_package.metadata)

\* a verifier that accepts a well-formed signature made with any key
VerifySignatureAnyKey(km, document_hash, signature_data) ==
    /\ signature_data.kind = "rsa-pss"
    /\ signature_data.msg = EncodeUtf8(document_hash)

\* a verifier that checks whose signature it is but not what it is over
VerifySignatureAnyMessage(km, document_hash, signature_data) ==
    /\ signature_data.kind = "rsa-pss"
    /\ signature_data.key = km.public_key.id

\* SignatureVerifier._verify_signature
VerifySignature(km, document_hash, signature_data) ==
    RsaPssVerify(km.public_key, signature_data, EncodeUtf8(document_hash))

\* a path resolution that always takes the document to be the sidecar path
\* without '.sig', whatever original_document_path says
ResolvePathsInferring(request) ==
    IF EndsWithSig(request.signed_document_path)
    THEN [signature_file_path |-> request.signed_document_path,
          document_path |-> StripSig(request.signed_document_path)]
    ELSE [signature_file_path |-> GetSignatureFilePath(request.signed_document_path),
          document_path |-> request.signed_document_path]

\* the two branches that choose signature_file_path and document_path
ResolvePaths(request) ==
    IF EndsWithSig(request.signed_document_path)
    THEN [signature_file_path |-> request.signed_document_path,
          document_path |->
              IF request.original_document_path # NoPath
              THEN request.original_document_path
              ELSE StripSig(request.signed_document_path)]
    ELSE [signature_file_path |-> GetSignatureFilePath(request.signed_document_path),
          document_path |-> request.signed_document_path]

\* a failed verification result
VerifyFailure(message, status, metadata, error) ==
    SignatureResult(FALSE, message, status, metadata, NoSignature, NoPath, error)

\* a verify_document without its try/except
VerifyCatchNothing(exc) == Raised(exc)

\* the `except Exception as e` handler of verify_document
VerifyCatch(exc) ==
    VerifyFailure("Error al verificar documento", StatusInvalid, NoMetadata, exc)

\* a verifier that never notices a changed document
HashMismatchNever(current_hash, metadata) == FALSE

\* a verifier that also turns down a sidecar recording another algorithm
\* than the one it implements
HashMismatchOrAlgorithm(current_hash, metadata) ==
    \/ current_hash # metadata.document_hash
    \/ metadata.signature_algorithm # DefaultAlgorithm

\* the comparison current_hash != metadata.document_hash
HashMismatch(current_hash, metadata) == current_hash # metadata.document_hash

\* a verifier that checks the signature over the current hash first and
\* compares the hashes afterwards
VerifyHashAndSignatureCryptoFirst(km, files, document_path, signature_data, metadata, stages) ==
    LET current_hash == VerifierCalculateDocumentHash(files, document_path) IN
    IF ~current_hash.ok
    THEN [res |-> VerifyCatch(current_hash.exc), km |-> km,
          stages |-> Append(stages, "hash")]
    ELSE IF ~VerifySignature(km, current_hash.value, signature_data)
    THEN [res |-> VerifyFailure("Firma invalida", StatusInvalid, metadata,
                                "La firma digital no pudo ser verificada"),
          km |-> km, stages |-> stages \o <<"hash", "crypto">>]
    ELSE IF HashMismatch(current_hash.value, metadata)
    THEN [res |-> VerifyFailure("El documento ha sido modificado despues de la firma",
                                StatusTampered, metadata,
                                "El hash del documento no coincide con el hash firmado"),
          km |-> km, stages |-> stages \o <<"hash", "crypto">>]
    ELSE [res |-> SignatureResult(TRUE, "Firma valida", StatusValid, metadata,
                                  NoSignature, NoPath, ""),
          km |-> km, stages |-> stages \o <<"hash", "crypto">>]

\* a verifier that lets signatures expire: a verified signature made at the
\* very first reading of the clock is reported as EXPIRED
VerifyHashAndSignatureExpiring(km, files, document_path, signature_data, metadata, stages) ==
    LET current_hash == VerifierCalculateDocumentHash(files, document_path) IN
    IF ~current_hash.ok
    THEN [res |-> VerifyCatch(current_hash.exc), km |-> km,
          stages |-> Append(stages, "hash")]
    ELSE IF HashMismatch(current_hash.value, metadata)
    THEN [res |-> VerifyFailure("El documento ha sido modificado despues de la firma",
                                StatusTampered, metadata,
                                "El hash del documento no coincide con el hash firmado"),
          km |-> km, stages |-> Append(stages, "hash")]
    ELSE IF ~VerifySignature(km, current_hash.value, signature_data)
    THEN [res |-> VerifyFailure("Firma invalida", StatusInvalid, metadata,
                                "La firma digital no pudo ser verificada"),
          km |-> km, stages |-> stages \o <<"hash", "crypto">>]
    ELSE IF metadata.signature_date = 0
    THEN [res |-> VerifyFailure("Firma expirada", StatusExpired, metadata,
                                "La firma ha expirado"),
          km |-> km, stages |-> stages \o <<"hash", "crypto">>]
    ELSE [res |-> SignatureResult(TRUE, "Firma valida", StatusValid, metadata,
                                  NoSignature, NoPath, ""),
          km |-> km, stages |-> stages \o <<"hash", "crypto">>]

\* verify_document from the hash comparison on: [res, km, stages]
VerifyHashAndSignature(km, files, document_path, signature_data, metadata, stages) ==
    LET current_hash == VerifierCalculateDocumentHash(files, document_path) IN
    IF ~current_hash.ok
    THEN [res |-> VerifyCatch(current_hash.exc), km |-> km,
          stages |-> Append(stages, "hash")]
    ELSE IF HashMismatch(current_hash.value, metadata)
    THEN [res |-> VerifyFailure("El documento ha sido modificado despues de la firma",
                                StatusTampered, metadata,
                                "El hash del documento no coincide con el hash firmado"),
          km |-> km, stages |-> Append(stages, "hash")]
    ELSE IF VerifySignature(km, current_hash.value, signature_data)
    THEN [res |-> SignatureResult(TRUE, "Firma valida", StatusValid, metadata,
                                  NoSignature, NoPath, ""),
          km |-> km, stages |-> stages \o <<"hash", "crypto">>]
    ELSE [res |-> VerifyFailure("Firma invalida", StatusInvalid, metadata,
                                "La firma digital no pudo ser verificada"),
          km |-> km, stages |-> stages \o <<"hash", "crypto">>]

\* a key resolution that falls back on the key already loaded when the
\* request's public key cannot be loaded
VerifyResolveKeyFallback(km, request, files, document_path, signature_data, metadata, stages) ==
    LET loaded == IF request.public_key_path # NoPath
                  THEN LoadPublicKey(km, files, request.public_key_path)
                  ELSE [ok |-> TRUE, km |-> km]
    IN IF loaded.km.public_key = NoKey
       THEN [res |-> VerifyFailure("No hay clave publica disponible",
                                   StatusKeyMismatch, NoMetadata,
                                   "Se requiere una clave publica para verificar la firma"),
             km |-> loaded.km, stages |-> Append(stages, "key")]
       ELSE VerifyHashAndSignature(loaded.km, files, document_path, signature_data,
                                   metadata, Append(stages, "key"))

\* verify_document from the key resolution on: [res, km, stages]
VerifyResolveKey(km, request, files, document_path, signature_data, metadata, stages) ==
    LET loaded == IF request.public_key_path # NoPath
                  THEN LoadPublicKey(km, files, request.public_key_path)
                  ELSE [ok |-> TRUE, km |-> km]
    IN IF ~loaded.ok
       THEN [res |-> VerifyFailure("No se pudo cargar la clave publica",
                                   StatusKeyMismatch, NoMetadata,
                                   "Error al cargar la clave publica proporcionada"),
             km |-> loaded.km, stages |-> Append(stages, "key")]
       ELSE IF loaded.km.public_key = NoKey
       THEN [res |-> VerifyFailure("No hay clave publica disponible",
                                   StatusKeyMismatch, NoMetadata,
                                   "Se requiere una clave publica para verificar la firma"),
             km |-> loaded.km, stages |-> Append(stages, "key")]
       ELSE VerifyHashAndSignature(loaded.km, files, document_path, signature_data,
                                   metadata, Append(stages, "key"))

\* SignatureVerifier.verify_document: [res, km, stages]
VerifyDocument(km, request, files) ==
    IF ~Exists(files, request.signed_document_path)
    THEN [res |-> VerifyFailure("Documento firmado no encontrado", StatusInvalid,
                                NoMetadata, "El archivo no existe"),
          km |-> km, stages |-> <<"locate">>]
    ELSE
    LET paths == ResolvePaths(request) IN
    IF ~Exists(files, paths.document_path)
    THEN [res |-> VerifyFailure("Documento original no encontrado", StatusInvalid,
                                NoMetadata, "El archivo no existe"),
          km |-> km, stages |-> <<"locate">>]
    ELSE
    LET signature_package == LoadSignatureFile(files, paths.signature_file_path) IN
    IF ~signature_package.ok \/ signature_package.value.keys = {}
    THEN [res |-> VerifyFailure("No se pudo cargar el archivo de firma", StatusInvalid,
                                NoMetadata,
                                "El archivo de firma es invalido o esta corrupto"),
          km |-> km, stages |-> <<"locate", "parse">>]
    ELSE
    LET signature_data == ExtractSignature(signature_package.value) IN
    IF ~signature_data.ok
    THEN [res |-> VerifyCatch(signature_data.exc), km |-> km,
          stages |-> <<"locate", "parse">>]
    ELSE
    LET metadata == ExtractMetadata(signature_package.value) IN
    IF ~metadata.ok
    THEN [res |-> VerifyCatch(metadata.exc), km |-> km,
          stages |-> <<"locate", "parse">>]
    ELSE VerifyResolveKey(km, request, files, paths.document_path,
                          signature_data.value, metadata.value,
                          <<"locate", "parse">>)

\* SignatureVerifier.extract_metadata_from_signature: None when the file
\* cannot be opened or decoded, has no 'metadata' or from_dict raises
ExtractMetadataFromSignature(files, signature_file_path) ==
    IF ~CanOpenRead(files, signature_file_path) THEN NoMetadata
    ELSE IF files[signature_file_path].kind # "json" THEN NoMetadata
    ELSE IF ~ExtractMetadata(files[signature_file_path].value).ok THEN NoMetadata
    ELSE ExtractMetadata(files[signature_file_path].value).value

\* metadata.document_hash[:16] + '...'
First16(str) == [kind |-> "first16", of |-> str]

\* a get_signature_info that reports no signature when the document is gone
GetSignatureInfoOfDocument(files, document_path) ==
    LET signature_file_path == GetSignatureFilePath(document_path)
        metadata == ExtractMetadataFromSignature(files, signature_file_path)
    IN IF ~Exists(files, signature_file_path) \/ ~Exists(files, document_path)
       THEN [has_signature |-> FALSE,
             message |-> "No se encontro archivo de firma"]
       ELSE IF metadata = NoMetadata
       THEN [has_signature |-> TRUE, is_valid |-> FALSE,
             message |-> "Archivo de firma corrupto"]
       ELSE [has_signature |-> TRUE,
             signer_name |-> metadata.signer_name,
             signer_email |-> metadata.signer_email,
             signature_date |-> IsoFormat(metadata.signature_date),
             algorithm |-> metadata.signature_algorithm,
             document_hash |-> First16(metadata.document_hash),
             additional_info |-> metadata.additional_info]

\* SignatureVerifier.get_signature_info: the dictionary returned
GetSignatureInfo(files, document_path) ==
    LET signature_file_path == GetSignatureFilePath(document_path)
        metadata == ExtractMetadataFromSignature(files, signature_file_path)
    IN IF ~Exists(files, signature_file_path)
       THEN [has_signature |-> FALSE,
             message |-> "No se encontro archivo de firma"]
       ELSE IF metadata = NoMetadata
       THEN [has_signature |-> TRUE, is_valid |-> FALSE,
             message |-> "Archivo de firma corrupto"]
       ELSE [has_signature |-> TRUE,
             signer_name |-> metadata.signer_name,
             signer_email |-> metadata.signer_email,
             signature_date |-> IsoFormat(metadata.signature_date),
             algorithm |-> metadata.signature_algorithm,
             document_hash |-> First16(metadata.document_hash),
             additional_info |-> metadata.additional_info]

\* -------------------------------------------------------------------- state
VARIABLES
    fs,        \* the filesystem: path -> file content
    signer,    \* the DocumentSigner instance the callers hold, if any
    verifier,  \* the SignatureVerifier instance the callers hold, if any
    clock,     \* the value the next datetime.now() returns
    nextKey,   \* the number of the key pair the next generate_key_pair() makes
    signLog,   \* per written path: the last successful sign_document there
    race,      \* the DocumentSigner constructions under way in other processes
    issued     \* the (key, hash) pairs of the signatures sign_document has saved

vars == <<fs, signer, verifier, clock, nextKey, signLog, race, issued>>

SidecarPaths == {GetSignatureFilePath(DocTxt), AltSig}
WrittenPaths == SidecarPaths \cup {DocTxt}

\* the requests callers make
SignRequests ==
    {SignatureRequest(d, "Ada", "ada@example.com", NoPath, EmptyInfo) :
        d \in {DocTxt, DocBad, DocGone, DirPath}}
    \cup {SignatureRequest(DocTxt, "Bob", "bob@example.com", NoPath, EmptyInfo)}
    \cup {SignatureRequest(DocTxt, "Ada", "ada@example.com", o, EmptyInfo) :
            o \in {AltSig, DirPath, DocTxt}}
    \cup {SignatureRequest(DocTxt, "Ada", "ada@example.com", NoPath, a) :
            a \in {NoteInfo, BlobInfo}}

PublicKeyPaths == {NoPath, PubPath, Pub2Path, DocBad}

VerifyRequests ==
    {VerificationRequest(s, NoPath, k) : s \in {DocTxt, AltSig}, k \in PublicKeyPaths}
    \cup {VerificationRequest(AltSig, DocTxt, k) : k \in PublicKeyPaths}
    \cup {VerificationRequest(s, NoPath, NoPath) :
            s \in {DocBad, DirPath, GetSignatureFilePath(DocTxt)}}
    \cup {VerificationRequest(AltSig, DirPath, NoPath)}

NoLog ==
    [signed |-> FALSE, doc |-> NoPath, content |-> NoFile, sidecar |-> NoFile,
     key |-> NoKeyId, hash |-> NotHex]

\* the key files found at start
InitialKeyFiles ==
    {[private |-> NoFile, public |-> NoFile],
     [private |-> PrivPem(OldKey, "pw"), public |-> PubPem(OldKey)],
     [private |-> PrivPem(OldKey, NoPassword), public |-> NoFile],
     [private |-> NoFile, public |-> Unwritable],
     [private |-> Unwritable, public |-> NoFile]}

\* the processes that construct a DocumentSigner on the same key paths
Procs == {"p", "q"}
NoProc == "none"

\* a construction that has not begun: the local KeyManager of
\* generate_and_save_keys and the signer's own key manager are empty
NoRace ==
    [proc |-> [p \in Procs |->
                  [pc |-> "start", manager |-> NewKeyManager,
                   key_manager |-> NewKeyManager]],
     last_private |-> NoProc, last_public |-> NoProc]

Init ==
    /\ \E keys \in InitialKeyFiles :
        fs = [p \in AllPaths |->
                CASE p = DocTxt -> Raw(<<>>)
                  [] p = DocBad -> Raw(<<0>>)
                  [] p = DirPath -> Directory
                  [] p = PrivPath -> keys.private
                  [] p = PubPath -> keys.public
                  [] p = Pub2Path -> PubPem(ForeignKey)
                  [] OTHER -> NoFile]
    /\ signer = [constructed |-> FALSE, key_manager |-> NewKeyManager]
    /\ verifier = [constructed |-> FALSE, key_manager |-> NewKeyManager]
    /\ clock = 0
    /\ nextKey = 1
    /\ signLog = [p \in WrittenPaths |-> NoLog]
    /\ race = NoRace
    /\ issued = {}

\* ------------------------------------------------------------------ actions
\* DocumentSigner(PrivPath, PubPath, password): a ValueError leaves the caller
\* without a new instance
NewSigner ==
    \E password \in Passwords :
        LET missing == ~VerifyKeyFilesExist(fs, PrivPath, PubPath)
            r == LoadKeys(fs, PrivPath, PubPath, password, NewKey(nextKey))
        IN /\ missing => nextKey <= MaxKeys
           /\ fs' = r.files
           /\ nextKey' = IF missing THEN nextKey + 1 ELSE nextKey
           /\ signer' = IF r.ok THEN [constructed |-> TRUE, key_manager |-> r.km]
                        ELSE signer
           /\ UNCHANGED <<verifier, clock, signLog, race, issued>>

\* SignatureVerifier(public_key_path)
NewVerifier ==
    \E public_key_path \in {NoPath, PubPath, Pub2Path} :
        /\ verifier' = [constructed |-> TRUE,
                        key_manager |-> NewVerifierKeys(fs, public_key_path)]
        /\ UNCHANGED <<fs, signer, clock, nextKey, signLog, race, issued>>

\* the entry signLog keeps for a successful sign_document
LogEntry(request, r) ==
    [signed |-> TRUE, doc |-> request.document_path,
     content |-> fs[request.document_path],
     sidecar |-> r.files[r.res.signed_file_path],
     key |-> signer.key_manager.private_key.id,
     hash |-> r.res.metadata.document_hash]

\* the signature a successful sign_document has made and saved: the key that
\* made it and the hash string it is over
Issue(km, res) == [key |-> km.private_key.id, hash |-> res.metadata.document_hash]

\* sign_document reads datetime.now() once the document hash is computed
ReadsClock(r) == Len(r.stages) >= 4

\* a sign_batch that stops at the first document it cannot sign
RECURSIVE SignBatchAborting(_, _, _, _, _, _)
SignBatchAborting(km, document_paths, signer_name, signer_email, files, now) ==
    IF document_paths = <<>>
    THEN [results |-> <<>>, files |-> files, now |-> now]
    ELSE LET request == SignatureRequest(Head(document_paths), signer_name,
                                         signer_email, NoPath, EmptyInfo)
             result == SignDocument(km, request, files, now)
             rest == IF result.res.success
                     THEN SignBatchAborting(km, Tail(document_paths), signer_name,
                                            signer_email, result.files,
                                            IF ReadsClock(result) THEN now + 1 ELSE now)
                     ELSE [results |-> <<>>, files |-> result.files, now |-> now]
         IN [results |-> <<result.res>> \o rest.results,
             files |-> rest.files, now |-> rest.now]

\* DocumentSigner.sign_batch: [results, files, now]; every document gets a
\* request with the shared identity and the defaults, and its own
\* datetime.now()
RECURSIVE SignBatch(_, _, _, _, _, _)
SignBatch(km, document_paths, signer_name, signer_email, files, now) ==
    IF document_paths = <<>>
    THEN [results |-> <<>>, files |-> files, now |-> now]
    ELSE LET request == SignatureRequest(Head(document_paths), signer_name,
                                         signer_email, NoPath, EmptyInfo)
             result == SignDocument(km, request, files, now)
             rest == SignBatch(km, Tail(document_paths), signer_name, signer_email,
                               result.files,
                               IF ReadsClock(result) THEN now + 1 ELSE now)
         IN [results |-> <<result.res>> \o rest.results,
             files |-> rest.files, now |-> rest.now]

\* SignatureVerifier.verify_batch: [results, km]
RECURSIVE VerifyBatch(_, _, _)
VerifyBatch(km, document_paths, files) ==
    IF document_paths = <<>>
    THEN [results |-> <<>>, km |-> km]
    ELSE LET request == VerificationRequest(Head(document_paths), NoPath, NoPath)
             result == VerifyDocument(km, request, files)
             rest == VerifyBatch(result.km, Tail(document_paths), files)
         IN [results |-> <<result.res>> \o rest.results, km |-> rest.km]

\* the request sign_batch makes for a path
BatchSignRequest(path) ==
    SignatureRequest(path, "Ada", "ada@example.com", NoPath, EmptyInfo)

\* the request verify_batch makes for a path
BatchVerifyRequest(path) == VerificationRequest(path, NoPath, NoPath)

\* the batches callers make
SignBatches ==
    {<<DocTxt, DocGone, DocTxt>>, <<DocGone, DocTxt>>, <<DirPath, DocBad, DocTxt>>,
     <<DocTxt>>, <<>>}

VerifyBatches ==
    {<<DocTxt, DocBad, AltSig>>, <<DocGone, DocTxt>>,
     <<GetSignatureFilePath(DocTxt), DocTxt, DocTxt>>, <<>>}

\* the index of the last successful result written to path p, 0 if none
LastSuccess(results, p) ==
    LET hits == {i \in 1..Len(results) :
                    results[i].success /\ results[i].signed_file_path = p}
    IN IF hits = {} THEN 0 ELSE CHOOSE i \in hits : \A j \in hits : j <= i

\* signer.sign_batch(document_paths, "Ada", "ada@example.com")
SignBatchCall ==
    \E document_paths \in SignBatches :
        LET r == SignBatch(signer.key_manager, document_paths, "Ada",
                           "ada@example.com", fs, clock)
        IN /\ signer.constructed
           /\ r.now <= MaxClock
           /\ fs' = r.files
           /\ clock' = r.now
           /\ signLog' =
                [p \in WrittenPaths |->
                    LET i == LastSuccess(r.results, p)
                    IN IF i = 0 THEN signLog[p]
                       ELSE [signed |-> TRUE, doc |-> document_paths[i],
                             content |-> fs[document_paths[i]],
                             sidecar |-> r.files[p],
                             key |-> signer.key_manager.private_key.id,
                             hash |-> r.results[i].metadata.document_hash]]
           /\ issued' = issued \cup {Issue(signer.key_manager, r.results[i]) :
                                        i \in {j \in 1..Len(r.results) :
                                                  r.results[j].success}}
           /\ UNCHANGED <<signer, verifier, nextKey, race>>

\* verifier.verify_batch(document_paths)
VerifyBatchCall ==
    \E document_paths \in VerifyBatches :
        LET r == VerifyBatch(verifier.key_manager, document_paths, fs)
        IN /\ verifier.constructed
           /\ verifier' = [verifier EXCEPT !.key_manager = r.km]
           /\ UNCHANGED <<fs, signer, clock, nextKey, signLog, race, issued>>

\* signer.sign_document(request)
Sign ==
    \E request \in SignRequests :
        LET r == SignDocument(signer.key_manager, request, fs, clock)
        IN /\ signer.constructed
           /\ ReadsClock(r) => clock < MaxClock
           /\ fs' = r.files
           /\ clock' = IF ReadsClock(r) THEN clock + 1 ELSE clock
           /\ signLog' = IF r.res.success
                         THEN [signLog EXCEPT ![r.res.signed_file_path] =
                                                  LogEntry(request, r)]
                         ELSE signLog
           /\ issued' = IF r.res.success
                        THEN issued \cup {Issue(signer.key_manager, r.res)}
                        ELSE issued
           /\ UNCHANGED <<signer, verifier, nextKey, race>>

\* verifier.verify_document(request): the result goes to the caller; the
\* verifier keeps the public key the request made it load
Verify ==
    \E request \in VerifyRequests :
        LET r == VerifyDocument(verifier.key_manager, request, fs)
        IN /\ verifier.constructed
           /\ verifier' = [verifier EXCEPT !.key_manager = r.km]
           /\ UNCHANGED <<fs, signer, clock, nextKey, signLog, race, issued>>

\* somebody appends a byte to the document a.txt
AppendByte ==
    \E b \in Bytes :
        /\ fs[DocTxt].kind = "raw"
        /\ Append(fs[DocTxt].bytes, b) \in DocContents
        /\ fs' = [fs EXCEPT ![DocTxt] = Raw(Append(fs[DocTxt].bytes, b))]
        /\ UNCHANGED <<signer, verifier, clock, nextKey, signLog, race, issued>>

\* somebody removes the last byte of the document a.txt
RemoveByte ==
    /\ fs[DocTxt].kind = "raw"
    /\ Len(fs[DocTxt].bytes) > 0
    /\ fs' = [fs EXCEPT ![DocTxt] =
                 Raw(SubSeq(fs[DocTxt].bytes, 1, Len(fs[DocTxt].bytes) - 1))]
    /\ UNCHANGED <<signer, verifier, clock, nextKey, signLog, race, issued>>

\* somebody deletes the document or a sidecar
DeleteFile ==
    \E p \in {DocTxt, GetSignatureFilePath(DocTxt)} :
        /\ Exists(fs, p)
        /\ fs' = [fs EXCEPT ![p] = NoFile]
        /\ UNCHANGED <<signer, verifier, clock, nextKey, signLog, race, issued>>

\* somebody removes a field from a sidecar's JSON object
DropField ==
    \E p \in {GetSignatureFilePath(DocTxt)}, field \in {"signature", "metadata"} :
        /\ fs[p].kind = "json"
        /\ field \in fs[p].value.keys
        /\ fs' = [fs EXCEPT ![p] =
                     JsonFile([fs[p].value EXCEPT !.keys = @ \ {field}])]
        /\ UNCHANGED <<signer, verifier, clock, nextKey, signLog, race, issued>>

Next ==
    \/ NewSigner
    \/ NewVerifier
    \/ Sign
    \/ SignBatchCall
    \/ Verify
    \/ VerifyBatchCall
    \/ AppendByte
    \/ RemoveByte
    \/ DeleteFile
    \/ DropField

Spec == Init /\ [][Next]_vars

\* ------------------------------------- key bootstrap in concurrent processes
\* DocumentSigner(PrivPath, PubPath) run by two processes at once, one system
\* call or one KeyManager call per step; no step takes a lock
Goto(p, pc) == [race EXCEPT !.proc[p].pc = pc]

\* verify_key_files_exist: os.path.exists(private_key_path) and ...
RaceCheckPrivate ==
    \E p \in Procs :
        /\ race.proc[p].pc = "start"
        /\ race' = Goto(p, IF Exists(fs, PrivPath) THEN "check_public" ELSE "generate")
        /\ UNCHANGED <<fs, signer, verifier, clock, nextKey, signLog, issued>>

\* ... and os.path.exists(public_key_path)
RaceCheckPublic ==
    \E p \in Procs :
        /\ race.proc[p].pc = "check_public"
        /\ race' = Goto(p, IF Exists(fs, PubPath) THEN "load" ELSE "generate")
        /\ UNCHANGED <<fs, signer, verifier, clock, nextKey, signLog, issued>>

\* generate_and_save_keys: manager.generate_key_pair()
RaceGenerate ==
    \E p \in Procs :
        /\ race.proc[p].pc = "generate"
        /\ nextKey <= MaxKeys
        /\ race' = [race EXCEPT
                       !.proc[p].manager = GenerateKeyPair(NewKeyManager, NewKey(nextKey)),
                       !.proc[p].pc = "save_private"]
        /\ nextKey' = nextKey + 1
        /\ UNCHANGED <<fs, signer, verifier, clock, signLog, issued>>

\* generate_and_save_keys: manager.save_private_key(private_key_path, password)
RaceSavePrivate ==
    \E p \in Procs :
        LET r == SavePrivateKey(race.proc[p].manager, fs, PrivPath, NoPassword)
        IN /\ race.proc[p].pc = "save_private"
           /\ fs' = r.files
           /\ race' = [race EXCEPT
                          !.proc[p].pc = IF r.ok THEN "save_public" ELSE "failed",
                          !.last_private = IF r.ok THEN p ELSE @]
           /\ UNCHANGED <<signer, verifier, clock, nextKey, signLog, issued>>

\* generate_and_save_keys: manager.save_public_key(public_key_path)
RaceSavePublic ==
    \E p \in Procs :
        LET r == SavePublicKey(race.proc[p].manager, fs, PubPath)
        IN /\ race.proc[p].pc = "save_public"
           /\ fs' = r.files
           /\ race' = [race EXCEPT
                          !.proc[p].pc = IF r.ok THEN "load" ELSE "failed",
                          !.last_public = IF r.ok THEN p ELSE @]
           /\ UNCHANGED <<signer, verifier, clock, nextKey, signLog, issued>>

\* _load_keys: self.key_manager.load_private_key(private_key_path, password)
RaceLoad ==
    \E p \in Procs :
        LET r == LoadPrivateKey(race.proc[p].key_manager, fs, PrivPath, NoPassword)
        IN /\ race.proc[p].pc = "load"
           /\ race' = [race EXCEPT
                          !.proc[p].pc = IF r.ok THEN "ready" ELSE "failed",
                          !.proc[p].key_manager = r.km]
           /\ UNCHANGED <<fs, signer, verifier, clock, nextKey, signLog, issued>>

\* the process signs the document with the signer it has constructed
RaceSign ==
    \E p \in Procs :
        LET r == SignDocument(race.proc[p].key_manager, BatchSignRequest(DocTxt),
                              fs, clock)
        IN /\ race.proc[p].pc = "ready"
           /\ clock < MaxClock
           /\ fs' = r.files
           /\ clock' = clock + 1
           /\ race' = Goto(p, "signed")
           /\ issued' = IF r.res.success
                        THEN issued \cup {Issue(race.proc[p].key_manager, r.res)}
                        ELSE issued
           /\ UNCHANGED <<signer, verifier, nextKey, signLog>>

RaceInit ==
    /\ fs = [p \in AllPaths |->
                CASE p = DocTxt -> Raw(<<>>)
                  [] p = DocBad -> Raw(<<0>>)
                  [] p = DirPath -> Directory
                  [] p = Pub2Path -> PubPem(ForeignKey)
                  [] OTHER -> NoFile]
    /\ signer = [constructed |-> FALSE, key_manager |-> NewKeyManager]
    /\ verifier = [constructed |-> FALSE, key_manager |-> NewKeyManager]
    /\ clock = 0
    /\ nextKey = 1
    /\ signLog = [p \in WrittenPaths |-> NoLog]
    /\ race = NoRace
    /\ issued = {}

RaceNext ==
    \/ RaceCheckPrivate
    \/ RaceCheckPublic
    \/ RaceGenerate
    \/ RaceSavePrivate
    \/ RaceSavePublic
    \/ RaceLoad
    \/ RaceSign

RaceSpec == RaceInit /\ [][RaceNext]_vars

\* --------------------------------------- rewriting a sidecar from the outside
\* A party that can write the document and its sidecar, holds the private key
\* of the foreign pair and has seen every signature sign_document has saved,
\* works on the sidecar of a.txt; the key holder keeps signing and the
\* verifier keeps verifying.
Sidecar == GetSignatureFilePath(DocTxt)

\* the sidecar can be rewritten field by field: it is a JSON object with both
\* its fields
Rewritable(files) ==
    /\ files[Sidecar].kind = "json"
    /\ files[Sidecar].value.keys = {"signature", "metadata"}

\* the sidecar with one metadata field set to a value
WithField(files, field, value) ==
    [files EXCEPT ![Sidecar] =
        JsonFile([files[Sidecar].value EXCEPT !.metadata[field] = value])]

\* the sidecar with its 'signature' set to a value
WithSignature(files, value) ==
    [files EXCEPT ![Sidecar] =
        JsonFile([files[Sidecar].value EXCEPT !.signature = value])]

\* the values the outsider writes into the metadata fields that are not the
\* hash; the date stays an ISO string
FieldValues ==
    [signer_name |-> {"Mallory"},
     signer_email |-> {"mallory@example.com"},
     signature_date |-> {IsoFormat(MaxClock + 1)},
     signature_algorithm |-> {"none"},
     key_fingerprint |-> {GetPublicKeyFingerprint(
                             [private_key |-> NoKey, public_key |-> PubKey(ForeignKey)])},
     additional_info |-> {NoteInfo}]

\* the fields the outsider rewrites while the model runs
RewrittenFields == {"signer_name", "signature_date", "key_fingerprint"}

\* the key holder signs a.txt into its default sidecar
TamperSign ==
    LET request == BatchSignRequest(DocTxt)
        r == SignDocument(signer.key_manager, request, fs, clock)
    IN /\ signer.constructed
       /\ ReadsClock(r) => clock < MaxClock
       /\ fs' = r.files
       /\ clock' = IF ReadsClock(r) THEN clock + 1 ELSE clock
       /\ signLog' = IF r.res.success
                     THEN [signLog EXCEPT ![r.res.signed_file_path] =
                                              LogEntry(request, r)]
                     ELSE signLog
       /\ issued' = IF r.res.success
                    THEN issued \cup {Issue(signer.key_manager, r.res)}
                    ELSE issued
       /\ UNCHANGED <<signer, verifier, nextKey, race>>

\* the outsider sets metadata.document_hash to the hash of the document as it
\* is now
RewriteHash ==
    /\ Rewritable(fs)
    /\ CanOpenRead(fs, DocTxt)
    /\ fs' = WithField(fs, "document_hash", Hex(Digest(fs[DocTxt])))
    /\ UNCHANGED <<signer, verifier, clock, nextKey, signLog, race, issued>>

\* the outsider rewrites a metadata field that is not the hash
RewriteField ==
    \E field \in RewrittenFields : \E value \in FieldValues[field] :
        /\ Rewritable(fs)
        /\ fs' = WithField(fs, field, value)
        /\ UNCHANGED <<signer, verifier, clock, nextKey, signLog, race, issued>>

\* the outsider signs the hash the sidecar records with the foreign private
\* key and stores that signature
ForgeSignature ==
    /\ Rewritable(fs)
    /\ fs' = WithSignature(fs,
                 Hex(RsaPssSign(ForeignKey,
                                EncodeUtf8(fs[Sidecar].value.metadata.document_hash))))
    /\ UNCHANGED <<signer, verifier, clock, nextKey, signLog, race, issued>>

\* the outsider puts back a signature that sign_document saved earlier
ReplaySignature ==
    \E seen \in issued :
        /\ Rewritable(fs)
        /\ fs' = WithSignature(fs, Hex(RsaPssSign(seen.key, EncodeUtf8(seen.hash))))
        /\ UNCHANGED <<signer, verifier, clock, nextKey, signLog, race, issued>>

\* the key files are there, DocumentSigner(PrivPath, PubPath, "pw") and
\* SignatureVerifier(PubPath) have been constructed
TamperFiles ==
    [p \in AllPaths |->
        CASE p = DocTxt -> Raw(<<>>)
          [] p = DocBad -> Raw(<<0>>)
          [] p = DirPath -> Directory
          [] p = PrivPath -> PrivPem(OldKey, "pw")
          [] p = PubPath -> PubPem(OldKey)
          [] p = Pub2Path -> PubPem(ForeignKey)
          [] OTHER -> NoFile]

TamperInit ==
    /\ fs = TamperFiles
    /\ signer = [constructed |-> TRUE,
                 key_manager |-> LoadKeys(TamperFiles, PrivPath, PubPath, "pw",
                                          NewKey(1)).km]
    /\ verifier = [constructed |-> TRUE,
                   key_manager |-> NewVerifierKeys(TamperFiles, PubPath)]
    /\ clock = 0
    /\ nextKey = 1
    /\ signLog = [p \in WrittenPaths |-> NoLog]
    /\ race = NoRace
    /\ issued = {}

TamperNext ==
    \/ TamperSign
    \/ Verify
    \/ AppendByte
    \/ RemoveByte
    \/ RewriteHash
    \/ RewriteField
    \/ ForgeSignature
    \/ ReplaySignature

TamperSpec == TamperInit /\ [][TamperNext]_vars

\* ------------------------------------------------------------------ claims
\* what signer.sign_document(request) returns and does in the current state
SignResult(request) == SignDocument(signer.key_manager, request, fs, clock)

\* what verifier.verify_document(request) returns in the current state
VerifyResult(request) == VerifyDocument(verifier.key_manager, request, fs)

VerifyStatuses == {StatusValid, StatusInvalid, StatusTampered, StatusKeyMismatch}

\* the request points verify_document at the document and the sidecar of the
\* successful sign_document logged for path p
Targets(request, p) ==
    /\ signLog[p].signed
    /\ ResolvePaths(request).signature_file_path = p
    /\ ResolvePaths(request).document_path = signLog[p].doc

\* the sidecar at p is as sign_document wrote it
SidecarUntouched(p) == fs[p] = signLog[p].sidecar

\* the document signed into p has the content it had when it was signed
DocumentUntouched(p) == fs[signLog[p].doc] = signLog[p].content

\* the document signed into p still exists, with another content
DocumentChanged(p) ==
    /\ Exists(fs, signLog[p].doc)
    /\ fs[signLog[p].doc] # signLog[p].content

\* the request's key resolution finds a public key
KeyResolves(request) ==
    IF request.public_key_path # NoPath
    THEN LoadPublicKey(verifier.key_manager, fs, request.public_key_path).ok
    ELSE verifier.key_manager.public_key # NoKey

\* the public key the request's key resolution ends with
ResolvedKey(request) ==
    IF request.public_key_path # NoPath
    THEN LoadPublicKey(verifier.key_manager, fs, request.public_key_path).km.public_key
    ELSE verifier.key_manager.public_key

\* C1 (round trip): after a successful sign_document with the default sidecar
\* path, with document and sidecar unchanged since, verify_document on the
\* document by a verifier holding the signer's public key returns
\* success=True, status VALID and the document_hash computed at sign time.
C1_RoundTrip ==
    \A request \in VerifyRequests :
        LET p == GetSignatureFilePath(request.signed_document_path)
            r == VerifyResult(request)
        IN (/\ verifier.constructed
            /\ p \in WrittenPaths
            /\ Targets(request, p)
            /\ SidecarUntouched(p) /\ DocumentUntouched(p)
            /\ request.public_key_path = NoPath
            /\ verifier.key_manager.public_key = PubKey(signLog[p].key))
           => /\ r.res.success
              /\ r.res.status = StatusValid
              /\ r.res.metadata.document_hash = signLog[p].hash

C1_Witness ==
    \E request \in VerifyRequests :
        LET p == GetSignatureFilePath(request.signed_document_path)
        IN /\ verifier.constructed
           /\ p \in WrittenPaths
           /\ Targets(request, p)
           /\ SidecarUntouched(p) /\ DocumentUntouched(p)
           /\ request.public_key_path = NoPath
           /\ verifier.key_manager.public_key = PubKey(signLog[p].key)
           /\ signLog[p].content = Raw(<<0, 1>>)
           /\ VerifyResult(request).res.status = StatusValid

Parsed(request) ==
    LET paths == ResolvePaths(request)
        package == LoadSignatureFile(fs, paths.signature_file_path)
    IN /\ Exists(fs, request.signed_document_path)
       /\ Exists(fs, paths.document_path)
       /\ package.ok /\ package.value.keys # {}
       /\ ExtractSignature(package.value).ok
       /\ ExtractMetadata(package.value).ok

\* the signature bytes and the metadata of a sidecar that passes Parse
SidecarSignature(request) ==
    ExtractSignature(
        LoadSignatureFile(fs, ResolvePaths(request).signature_file_path).value).value
SidecarMetadata(request) ==
    ExtractMetadata(
        LoadSignatureFile(fs, ResolvePaths(request).signature_file_path).value).value

\* the document can be read and its hash is the one the sidecar records
HashMatches(request) ==
    /\ CanOpenRead(fs, ResolvePaths(request).document_path)
    /\ Hex(Digest(fs[ResolvePaths(request).document_path]))
           = SidecarMetadata(request).document_hash

\* the document can be read and its hash is not the one the sidecar records
HashDiffers(request) ==
    /\ CanOpenRead(fs, ResolvePaths(request).document_path)
    /\ Hex(Digest(fs[ResolvePaths(request).document_path]))
           # SidecarMetadata(request).document_hash

VerifyStages == <<"locate", "parse", "key", "hash", "crypto">>
IsPrefix(s, t) == Len(s) <= Len(t) /\ s = SubSeq(t, 1, Len(s))
Ran(stage, r) == \E i \in 1..Len(r.stages) : r.stages[i] = stage

SomeKeyAvailable(request) ==
    \/ /\ request.public_key_path # NoPath
       /\ LoadPublicKey(verifier.key_manager, fs, request.public_key_path).ok
    \/ verifier.key_manager.public_key # NoKey

\* C5 as stated (key resolution): at key resolution the result is
\* KEY_MISMATCH exactly when neither an explicit key nor an already loaded
\* key is available.
C5_Original ==
    \A request \in VerifyRequests :
        (verifier.constructed /\ Parsed(request))
        => (VerifyResult(request).res.status = StatusKeyMismatch
            <=> ~SomeKeyAvailable(request))

\* C5 (key resolution), amended: if the request carries a public_key_path,
\* the key loaded from that path is the one used for the cryptographic check;
\* otherwise the verifier's already loaded public key is used; the result is
\* KEY_MISMATCH exactly when the request's public_key_path cannot be loaded
\* (whatever key the verifier holds) or the request carries none and the
\* verifier holds no key.
C5_KeyResolution ==
    \A request \in VerifyRequests :
        LET r == VerifyResult(request)
        IN (verifier.constructed /\ Parsed(request))
           => /\ r.res.status = StatusKeyMismatch <=> ~KeyResolves(request)
              /\ r.km.public_key = ResolvedKey(request)
              /\ (KeyResolves(request) /\ HashMatches(request))
                 => (r.res.status = StatusValid
                     <=> RsaPssVerify(ResolvedKey(request), SidecarSignature(request),
                                      EncodeUtf8(SidecarMetadata(request).document_hash)))

C5_Witness ==
    \E request \in VerifyRequests :
        /\ verifier.constructed /\ Parsed(request)
        /\ request.public_key_path # NoPath
        /\ KeyResolves(request) /\ HashMatches(request)
        /\ verifier.key_manager.public_key # NoKey
        /\ verifier.key_manager.public_key # ResolvedKey(request)
        /\ VerifyResult(request).res.status = StatusValid
        /\ \E other \in VerifyRequests :
              /\ Parsed(other) /\ other.public_key_path # NoPath
              /\ ~KeyResolves(other)
              /\ VerifyResult(other).res.status = StatusKeyMismatch

\* C6 (total): verify_document returns a SignatureResult for every request in
\* every state, never raises, and the status is one of VALID, INVALID,
\* TAMPERED, KEY_MISMATCH.
C6_VerifyNeverRaises ==
    \A request \in VerifyRequests :
        verifier.constructed
        => /\ ~VerifyResult(request).res.raised
           /\ VerifyResult(request).res.status \in VerifyStatuses

\* an exception reaches the handler of verify_document: a sidecar without its
\* 'signature' field, and a document that cannot be opened for hashing
C6_Witness ==
    /\ verifier.constructed
    /\ \E request \in VerifyRequests :
          LET package == LoadSignatureFile(fs, ResolvePaths(request).signature_file_path)
          IN /\ Exists(fs, ResolvePaths(request).document_path)
             /\ package.ok /\ package.value.keys = {"metadata"}
             /\ VerifyResult(request).res.status = StatusInvalid
    /\ \E request \in VerifyRequests :
          /\ Parsed(request) /\ KeyResolves(request)
          /\ ~CanOpenRead(fs, ResolvePaths(request).document_path)
          /\ VerifyResult(request).res.status = StatusInvalid

\* Locate or Parse fails for the request: a missing signed-document path, a
\* missing document, a missing or undecodable sidecar, or a sidecar without
\* its 'signature' or 'metadata' field
LocateOrParseFails(request) ==
    LET paths == ResolvePaths(request)
    IN \/ ~Exists(fs, request.signed_document_path)
       \/ ~Exists(fs, paths.document_path)
       \/ ~Exists(fs, paths.signature_file_path)
       \/ fs[paths.signature_file_path].kind # "json"
       \/ "signature" \notin fs[paths.signature_file_path].value.keys
       \/ "metadata" \notin fs[paths.signature_file_path].value.keys

\* C7 (Locate and Parse failures): verify_document returns success=False and
\* status INVALID whenever the signed-document path, the resolved document or
\* the sidecar is missing, or the sidecar is not decodable JSON or lacks the
\* 'signature' or 'metadata' field.
C7_LocateParseInvalid ==
    \A request \in VerifyRequests :
        (verifier.constructed /\ LocateOrParseFails(request))
        => /\ ~VerifyResult(request).res.success
           /\ VerifyResult(request).res.status = StatusInvalid

\* a sidecar without its 'signature' field for a changed document, verified
\* by a verifier without a key: still INVALID
C7_Witness ==
    \E request \in VerifyRequests :
        LET paths == ResolvePaths(request)
        IN /\ verifier.constructed
           /\ verifier.key_manager.public_key = NoKey
           /\ request.public_key_path = NoPath
           /\ Exists(fs, paths.document_path)
           /\ Exists(fs, paths.signature_file_path)
           /\ fs[paths.signature_file_path].kind = "json"
           /\ fs[paths.signature_file_path].value.keys = {"metadata"}
           /\ ExtractMetadata(fs[paths.signature_file_path].value).value.document_hash
                  # Hex(Digest(fs[paths.document_path]))
           /\ VerifyResult(request).res.status = StatusInvalid

\* C8 (sign_document never raises): every failure of sign_document is
\* returned as a SignatureResult with success=False, a message and a
\* non-empty error detail; no exception reaches the caller.
C8_SignNeverRaises ==
    \A request \in SignRequests :
        signer.constructed
        => /\ ~SignResult(request).res.raised
           /\ ~SignResult(request).res.success
              => /\ SignResult(request).res.message # ""
                 /\ SignResult(request).res.error # ""

\* the failures: a missing document, an unsupported type, a document that
\* cannot be read, a sidecar that cannot be written or serialised
C8_Witness ==
    /\ signer.constructed
    /\ \E request \in SignRequests :
          /\ ~Exists(fs, request.document_path)
          /\ ~SignResult(request).res.success
    /\ \E request \in SignRequests :
          /\ SignResult(request).stages = <<"exists", "detect", "hash">>
          /\ SignResult(request).res.error = "IsADirectoryError"
    /\ \E request \in SignRequests :
          /\ request.output_path = DirPath
          /\ SignResult(request).res.error = "OSError"
    /\ \E request \in SignRequests :
          /\ request.additional_info = BlobInfo
          /\ SignResult(request).res.error = "TypeError"

\* the extension of the path, compared case-insensitively, is none of txt,
\* pdf, zip
UnsupportedExtension(path) == Lower(Suffix(path)) \notin {".txt", ".pdf", ".zip"}

UnsupportedOutcome(res) ==
    ~res.success /\ res.message = "Tipo de documento no soportado"

\* C9 as stated (type gating): sign_document on a path with an unsupported
\* extension fails with the unsupported-document-type outcome, before any
\* hashing.
C9_Original ==
    \A request \in SignRequests :
        (signer.constructed /\ UnsupportedExtension(request.document_path))
        => /\ UnsupportedOutcome(SignResult(request).res)
           /\ ~Ran("hash", SignResult(request))

\* C9 (type gating), amended: sign_document on an existing path whose
\* extension, compared case-insensitively, is not one of txt, pdf, zip fails
\* with the unsupported-document-type outcome (a path that does not exist
\* fails as document-not-found instead); in both cases the call fails before
\* the hash routine is invoked: no hashing, no signature creation, no sidecar
\* write.
C9_TypeGating ==
    \A request \in SignRequests :
        LET r == SignResult(request)
        IN (signer.constructed /\ UnsupportedExtension(request.document_path))
           => /\ ~r.res.success
              /\ Exists(fs, request.document_path) => UnsupportedOutcome(r.res)
              /\ ~Exists(fs, request.document_path)
                 => r.res.message = "Documento no encontrado"
              /\ ~Ran("hash", r) /\ ~Ran("sign", r) /\ ~Ran("save", r)
              /\ r.files = fs

C9_Witness ==
    /\ signer.constructed
    /\ \E request \in SignRequests :
          /\ UnsupportedExtension(request.document_path)
          /\ Exists(fs, request.document_path)
          /\ SignResult(request).stages = <<"exists", "detect">>
          /\ UnsupportedOutcome(SignResult(request).res)
    /\ \E request \in SignRequests :
          /\ ~UnsupportedExtension(request.document_path)
          /\ Suffix(request.document_path) # Lower(Suffix(request.document_path))
          /\ Ran("hash", SignResult(request))

\* C10 (the original document is never modified): for every SignatureRequest,
\* also one with an output_path, sign_document leaves the content of the
\* document file unchanged, whether it succeeds or fails.
C10_DocumentUnchanged ==
    \A request \in SignRequests :
        (signer.constructed /\ request.document_path \in DOMAIN fs)
        => SignResult(request).files[request.document_path]
               = fs[request.document_path]

\* the sidecar path sign_document uses for the request
RequestedSidecarPath(request) ==
    IF request.output_path # NoPath THEN request.output_path
    ELSE GetSignatureFilePath(request.document_path)

\* C11 (packaging): whenever sign_document returns success=True, the status
\* is VALID, the returned signed_file_path is the request's output_path if
\* given and <document_path>.sig otherwise, and the file there is a JSON
\* sidecar holding the hex-encoded signature and the metadata, whose
\* signer_name and signer_email are the request's, whose document_hash is the
\* SHA-256 hex digest of the document as it was when signing began, and whose
\* signature is the signer's signature over exactly that hash string.
C11_Packaging ==
    \A request \in SignRequests :
        LET r == SignResult(request)
            path == RequestedSidecarPath(request)
        IN (signer.constructed /\ r.res.success)
           => /\ r.res.status = StatusValid
              /\ r.res.signed_file_path = path
              /\ Exists(r.files, path)
              /\ r.files[path].kind = "json"
              /\ r.files[path].value.keys = {"signature", "metadata"}
              /\ IsHex(r.files[path].value.signature)
              /\ r.files[path].value.metadata.signer_name = request.signer_name
              /\ r.files[path].value.metadata.signer_email = request.signer_email
              /\ r.files[path].value.metadata.document_hash
                    = Hex(Digest(fs[request.document_path]))
              /\ FromHex(r.files[path].value.signature)
                    = RsaPssSign(signer.key_manager.private_key.id,
                                 EncodeUtf8(r.files[path].value.metadata.document_hash))
              /\ r.files[path].value.metadata = MetadataToDict(r.res.metadata)

\* a successful signing into the default sidecar and one into an output_path,
\* of a document that is not empty
C11_Witness ==
    /\ signer.constructed
    /\ fs[DocTxt] = Raw(<<0, 1>>)
    /\ \E request \in SignRequests :
          request.output_path = NoPath /\ SignResult(request).res.success
    /\ \E request \in SignRequests :
          request.output_path = AltSig /\ SignResult(request).res.success

\* what signer.sign_batch(document_paths, "Ada", ...) returns and does now
SignBatchResult(document_paths) ==
    SignBatch(signer.key_manager, document_paths, "Ada", "ada@example.com", fs, clock)

\* what verifier.verify_batch(document_paths) returns now
VerifyBatchResult(document_paths) ==
    VerifyBatch(verifier.key_manager, document_paths, fs)

RemoveAt(seq, i) == SubSeq(seq, 1, i - 1) \o SubSeq(seq, i + 1, Len(seq))

\* two results of sign_document agree in everything but the signing time
SameButDate(a, b) ==
    /\ a.success = b.success /\ a.message = b.message /\ a.status = b.status
    /\ a.error = b.error /\ a.signed_file_path = b.signed_file_path
    /\ a.raised = b.raised /\ a.signature_data = b.signature_data
    /\ IF a.success /\ b.success
       THEN [a.metadata EXCEPT !.signature_date = 0]
                = [b.metadata EXCEPT !.signature_date = 0]
       ELSE a.metadata = b.metadata

\* C12 (batch independence): sign_batch and verify_batch return one result
\* per input path, in input order; the i-th result is what sign_document
\* (up to the signing time) or verify_document returns for the i-th path on
\* its own; a missing file gives a failed result at its position; and taking
\* a failing path out of the batch leaves the results of the other paths as
\* they were.
C12_BatchIndependence ==
    /\ signer.constructed
       => \A document_paths \in SignBatches :
            LET out == SignBatchResult(document_paths)
            IN /\ Len(out.results) = Len(document_paths)
               /\ \A i \in 1..Len(document_paths) :
                    /\ i <= Len(out.results)
                    /\ SameButDate(out.results[i],
                                   SignResult(BatchSignRequest(document_paths[i])).res)
                    /\ ~Exists(fs, document_paths[i]) => ~out.results[i].success
                    /\ ~out.results[i].success
                       => SignBatchResult(RemoveAt(document_paths, i)).results
                              = RemoveAt(out.results, i)
    /\ verifier.constructed
       => \A document_paths \in VerifyBatches :
            LET out == VerifyBatchResult(document_paths)
            IN /\ Len(out.results) = Len(document_paths)
               /\ \A i \in 1..Len(document_paths) :
                    /\ i <= Len(out.results)
                    /\ out.results[i]
                          = VerifyResult(BatchVerifyRequest(document_paths[i])).res
                    /\ ~Exists(fs, document_paths[i]) => ~out.results[i].success
                    /\ ~out.results[i].success
                       => VerifyBatchResult(RemoveAt(document_paths, i)).results
                              = RemoveAt(out.results, i)

\* sign_batch([A, B_missing, A]) signs A twice around the missing file, and
\* verify_batch finds a VALID and a failed signature in one batch
C12_Witness ==
    /\ signer.constructed /\ verifier.constructed
    /\ LET out == SignBatchResult(<<DocTxt, DocGone, DocTxt>>)
       IN /\ out.results[1].success /\ ~out.results[2].success
          /\ out.results[3].success
          /\ out.results[1].metadata.signature_date
                # out.results[3].metadata.signature_date
    /\ LET out == VerifyBatchResult(<<DocTxt, DocBad, AltSig>>)
       IN /\ out.results[1].status = StatusValid
          /\ out.results[2].status = StatusInvalid
          /\ ~out.results[3].success
    /\ VerifyBatchResult(<<GetSignatureFilePath(DocTxt), DocTxt, DocTxt>>).results[1].status
          = StatusValid

\* what DocumentSigner(PrivPath, PubPath, password) does in the current state
Construction(password) ==
    LoadKeys(fs, PrivPath, PubPath, password, NewKey(nextKey))

\* C13 (key bootstrapping): constructing a DocumentSigner writes key files
\* only when no key file exists at the configured paths; a private key file
\* that exists is left with its content, whatever the password and whether
\* or not construction succeeds.
C13_KeyBootstrapping ==
    \A password \in Passwords :
        /\ Construction(password).files # fs
           => ~Exists(fs, PrivPath) /\ ~Exists(fs, PubPath)
        /\ Exists(fs, PrivPath)
           => Construction(password).files[PrivPath] = fs[PrivPath]

\* C14 (a constructed signer has its keys): every DocumentSigner whose
\* construction completed holds a private key and the public key derived
\* from it, and no sign_document fails for lack of a key; a construction
\* completes only if the generation it needed succeeded and the private key
\* file then loaded under the given password, and otherwise yields no signer.
C14_SignerHasKeys ==
    /\ signer.constructed
       => /\ signer.key_manager.private_key # NoKey
          /\ signer.key_manager.public_key = PublicOf(signer.key_manager.private_key)
          /\ \A request \in SignRequests :
                SignResult(request).res.error # "AttributeError"
    /\ \A password \in Passwords :
          LET r == Construction(password)
              generates == ~VerifyKeyFilesExist(fs, PrivPath, PubPath)
          IN /\ r.ok
                => /\ r.km.private_key # NoKey
                   /\ r.km.public_key = PublicOf(r.km.private_key)
                   /\ r.files[PrivPath] = PrivPem(r.km.private_key.id, password)
             /\ (generates /\ ~GenerateAndSaveKeys(fs, PrivPath, PubPath, password,
                                                   NewKey(nextKey)).ok)
                => ~r.ok
             /\ ~LoadPrivateKey(NewKeyManager, r.files, PrivPath, password).ok
                => ~r.ok
             /\ ~r.ok => r.km = NewKeyManager

\* a signer exists while a construction with the wrong passphrase would abort
C14_Witness ==
    /\ signer.constructed
    /\ signer.key_manager.private_key = PrivKey(OldKey)
    /\ \E password \in Passwords :
          /\ Exists(fs, PrivPath) /\ Exists(fs, PubPath)
          /\ ~Construction(password).ok

\* the status is not EXPIRED, in a result and in every result of a batch
NotExpired(res) == res.status # StatusExpired
NoneExpired(results) == \A i \in 1..Len(results) : NotExpired(results[i])

\* C15 (EXPIRED is never produced): in every state the calls can lead to, no
\* result of sign_document, sign_batch, verify_document or verify_batch has
\* status EXPIRED.
C15_NeverExpired ==
    /\ signer.constructed
       => /\ \A request \in SignRequests : NotExpired(SignResult(request).res)
          /\ \A document_paths \in SignBatches :
                NoneExpired(SignBatchResult(document_paths).results)
    /\ verifier.constructed
       => /\ \A request \in VerifyRequests : NotExpired(VerifyResult(request).res)
          /\ \A document_paths \in VerifyBatches :
                NoneExpired(VerifyBatchResult(document_paths).results)

\* results of every other status occur: a VALID signing, and VALID, INVALID,
\* TAMPERED and KEY_MISMATCH verifications of signatures made at different times
C15_Witness ==
    /\ signer.constructed /\ verifier.constructed
    /\ clock = MaxClock
    /\ \E request \in SignRequests : SignResult(request).res.status = StatusValid
    /\ \A status \in VerifyStatuses :
          \E request \in VerifyRequests : VerifyResult(request).res.status = status

\* the filesystem with nothing in it but the file at path p
OnlyFile(p) == [q \in AllPaths |-> IF q = p THEN fs[q] ELSE NoFile]

\* the filesystem with another document in place of a.txt
OtherDocument == [fs EXCEPT ![DocTxt] = Raw(<<1, 1>>)]

\* C16 (metadata-only inspection): extract_metadata_from_signature and
\* get_signature_info return the same whether or not the document and the key
\* files exist and whatever the document contains: their result is decided
\* by the sidecar file alone; and get_signature_info never reports is_valid
\* as true.
C16_MetadataOnly ==
    /\ \A p \in SidecarPaths \cup {DocTxt, DirPath} :
          /\ ExtractMetadataFromSignature(fs, p)
                = ExtractMetadataFromSignature(OnlyFile(p), p)
          /\ p # DocTxt
             => ExtractMetadataFromSignature(fs, p)
                   = ExtractMetadataFromSignature(OtherDocument, p)
    /\ \A d \in {DocTxt, DocBad, DocGone} :
          LET info == GetSignatureInfo(fs, d)
          IN /\ info = GetSignatureInfo(OnlyFile(GetSignatureFilePath(d)), d)
             /\ info = GetSignatureInfo(OtherDocument, d)
             /\ "is_valid" \in DOMAIN info => ~info.is_valid
             /\ info.has_signature <=> Exists(fs, GetSignatureFilePath(d))

\* the sidecar's metadata is reported although the document was changed
\* since, the verifier's verdict being TAMPERED
C16_Witness ==
    /\ verifier.constructed
    /\ VerifyResult(BatchVerifyRequest(DocTxt)).res.status = StatusTampered
    /\ "signer_name" \in DOMAIN GetSignatureInfo(fs, DocTxt)
    /\ GetSignatureInfo(fs, DocTxt).signer_name = "Ada"
    /\ ExtractMetadataFromSignature(fs, GetSignatureFilePath(DocTxt)) # NoMetadata

\* the key managers around: the signer's, the verifier's, a new one, and new
\* ones that loaded the public key file at one of the paths
KeyManagers ==
    {signer.key_manager, verifier.key_manager, NewKeyManager}
    \cup {LoadPublicKey(NewKeyManager, fs, p).km : p \in {PubPath, Pub2Path}}

\* the sidecars signed by the signer the callers hold now
OwnSidecars ==
    {p \in SidecarPaths :
        /\ signLog[p].signed /\ SidecarUntouched(p)
        /\ signLog[p].key = signer.key_manager.private_key.id}

\* C17 (key/fingerprint binding): get_public_key_fingerprint returns None
\* exactly when no public key is loaded; two managers return the same
\* fingerprint exactly when they hold the same public key, whether it came
\* from a private key or from a public key file; and the key_fingerprint a
\* sidecar records is the fingerprint of the public key of the signer that
\* made it.
C17_FingerprintBinding ==
    /\ \A km \in KeyManagers :
          GetPublicKeyFingerprint(km) = NoFingerprint <=> km.public_key = NoKey
    /\ \A km1, km2 \in KeyManagers :
          (km1.public_key # NoKey /\ km2.public_key # NoKey)
          => (GetPublicKeyFingerprint(km1) = GetPublicKeyFingerprint(km2)
              <=> km1.public_key = km2.public_key)
    /\ signer.constructed
       => /\ \A request \in SignRequests :
                SignResult(request).res.success
                => SignResult(request).res.metadata.key_fingerprint
                      = GetPublicKeyFingerprint(signer.key_manager)
          /\ \A p \in OwnSidecars :
                fs[p].value.metadata.key_fingerprint
                    = GetPublicKeyFingerprint(signer.key_manager)

\* the signer, who loaded the private key, and a verifier that loaded the
\* saved public key file have the fingerprint a sidecar records, and a
\* manager with another key has another one
C17_Witness ==
    /\ signer.constructed /\ verifier.constructed
    /\ verifier.key_manager.private_key = NoKey
    /\ verifier.key_manager.public_key = signer.key_manager.public_key
    /\ OwnSidecars # {}
    /\ \A p \in OwnSidecars :
          fs[p].value.metadata.key_fingerprint
              = GetPublicKeyFingerprint(verifier.key_manager)
    /\ \E km \in KeyManagers :
          /\ km.public_key # NoKey
          /\ GetPublicKeyFingerprint(km) # GetPublicKeyFingerprint(signer.key_manager)

\* the paths load_private_key is tried on: the key files, a file that is no
\* key, a directory, a path without a file
LoadPaths == {PrivPath, PubPath, DocBad, DirPath, DocGone}

\* C18 (load_private_key): load_private_key succeeds exactly when the path
\* holds a private key in PEM form that the given passphrase opens; it fails
\* when the path does not exist, the passphrase is wrong or the data is not
\* a private key; when it fails the manager's private and public keys are
\* what they were; when it succeeds the manager holds the loaded private key
\* and the public key derived from it.
C18_LoadPrivateKey ==
    \A km \in KeyManagers, filepath \in LoadPaths, password \in Passwords :
        LET r == LoadPrivateKey(km, fs, filepath, password)
        IN /\ ~Exists(fs, filepath) => ~r.ok
           /\ (Exists(fs, filepath) /\ fs[filepath].kind # "privpem") => ~r.ok
           /\ (Exists(fs, filepath) /\ fs[filepath].kind = "privpem")
              => (r.ok <=> fs[filepath].password = password)
           /\ ~r.ok => r.km = km
           /\ r.ok => /\ r.km.private_key = PrivKey(fs[filepath].key)
                      /\ r.km.public_key = PublicOf(r.km.private_key)

\* a manager with keys, for which the load fails on a missing path, on a
\* wrong passphrase and on a file that is no private key, and succeeds with
\* the right passphrase
C18_Witness ==
    /\ signer.constructed
    /\ signer.key_manager.private_key # NoKey
    /\ verifier.key_manager.public_key = PubKey(ForeignKey)
    /\ fs[PrivPath].kind = "privpem"
    /\ fs[PubPath].kind = "pubpem"
    /\ \E password \in Passwords :
          ~LoadPrivateKey(signer.key_manager, fs, PrivPath, password).ok
    /\ \E password \in Passwords :
          /\ LoadPrivateKey(verifier.key_manager, fs, PrivPath, password).ok
          /\ LoadPrivateKey(verifier.key_manager, fs, PrivPath, password).km
                # verifier.key_manager
    /\ ~LoadPrivateKey(signer.key_manager, fs, DocGone, NoPassword).ok
    /\ ~LoadPrivateKey(signer.key_manager, fs, PubPath, NoPassword).ok

\* the path pairs generate_and_save_keys is tried on: the configured paths,
\* and a directory in place of either
KeyPathPairs ==
    {<<PrivPath, PubPath>>, <<PrivPath, DirPath>>, <<DirPath, PubPath>>}

\* C19 (generate_and_save_keys): it returns success exactly when both files
\* were written, the private file with the private key and the public file
\* with the public key of the one pair generated in the call; when the
\* private key cannot be saved nothing is written; when the private key was
\* saved and the public key cannot be, it returns failure, the public path
\* is as before and the private path holds the new key, whatever was there.
C19_GenerateAndSave ==
    \A paths \in KeyPathPairs, password \in Passwords :
        LET r == GenerateAndSaveKeys(fs, paths[1], paths[2], password, NewKey(nextKey))
        IN /\ r.ok <=> (CanOpenWrite(fs, paths[1]) /\ CanOpenWrite(fs, paths[2]))
           /\ r.ok => /\ r.files[paths[1]] = PrivPem(NewKey(nextKey), password)
                      /\ r.files[paths[2]] = PubPem(NewKey(nextKey))
           /\ ~CanOpenWrite(fs, paths[1]) => r.files = fs
           /\ (CanOpenWrite(fs, paths[1]) /\ ~CanOpenWrite(fs, paths[2]))
              => /\ r.files[paths[1]] = PrivPem(NewKey(nextKey), password)
                 /\ r.files[paths[2]] = fs[paths[2]]
           /\ \A p \in AllPaths \ {paths[1], paths[2]} : r.files[p] = fs[p]

\* a construction has left a private key behind without its public key, and
\* the next generate_and_save_keys replaces it and fails again
C19_Witness ==
    /\ fs[PrivPath].kind = "privpem"
    /\ fs[PubPath] = Unwritable
    /\ nextKey > 1
    /\ ~signer.constructed
    /\ ~GenerateAndSaveKeys(fs, PrivPath, PubPath, NoPassword, NewKey(nextKey)).ok
    /\ GenerateAndSaveKeys(fs, PrivPath, PubPath, NoPassword, NewKey(nextKey)).files[PrivPath]
          # fs[PrivPath]

\* process p has signed a.txt and its signature is the one in the sidecar
SignedByProc(p) ==
    /\ race.proc[p].pc = "signed"
    /\ fs[GetSignatureFilePath(DocTxt)].kind = "json"
    /\ FromHex(fs[GetSignatureFilePath(DocTxt)].value.signature).key
          = race.proc[p].key_manager.private_key.id

\* what a new verifier built on the public-key file says about a.txt
RaceVerdict ==
    VerifyDocument(NewVerifierKeys(fs, PubPath), BatchVerifyRequest(DocTxt), fs).res.status

\* the key files hold halves of different generated pairs
KeyFilesDiffer ==
    /\ fs[PrivPath].kind = "privpem" /\ fs[PubPath].kind = "pubpem"
    /\ fs[PrivPath].key # fs[PubPath].key

\* C20 (no mutual exclusion on the key files): while two processes run the
\* key bootstrap on the same paths, each key file holds what the process that
\* wrote it last saved there; a process whose signer loaded the private key
\* of one pair while the public-key file holds the public key of the other
\* pair signs documents that verify as INVALID, not VALID, against the
\* public-key file, and as VALID when the file matches its key.
C20_BootstrapRace ==
    /\ race.last_private # NoProc
       => fs[PrivPath]
             = PrivPem(race.proc[race.last_private].manager.private_key.id, NoPassword)
    /\ race.last_public # NoProc
       => fs[PubPath] = PubPem(race.proc[race.last_public].manager.public_key.id)
    /\ \A p \in Procs :
          (SignedByProc(p) /\ fs[PubPath].kind = "pubpem")
          => IF fs[PubPath].key = race.proc[p].key_manager.private_key.id
             THEN RaceVerdict = StatusValid
             ELSE RaceVerdict = StatusInvalid

\* the interleaving: both processes found no key files, generated and saved;
\* the private-key file is of one pair and the public-key file of the other;
\* a process has loaded that private key and signed, and the signature does
\* not verify against the public-key file
C20_Witness ==
    /\ KeyFilesDiffer
    /\ race.last_private # race.last_public
    /\ \E p \in Procs :
          /\ SignedByProc(p)
          /\ race.proc[p].key_manager.private_key.id = fs[PrivPath].key
          /\ RaceVerdict = StatusInvalid

\* the hash of the document the request resolves to, as it is now
CurrentHash(request) == Hex(Digest(fs[ResolvePaths(request).document_path]))

\* sign_document has saved a signature over the hash made with the private
\* key of the public key
WasSigned(public_key, hash) == [key |-> public_key.id, hash |-> hash] \in issued

\* C21 (soundness of VALID): verify_document returns VALID only if the
\* document's current hash equals the hash the sidecar records and the
\* sidecar's signature is the signature over that hash string by the private
\* key of the resolved public key; whatever an outsider who does not hold
\* that private key writes into the document and the sidecar, VALID is
\* returned only for a content whose hash the key holder signed, and a
\* document whose hash was not signed, with document_hash rewritten to match
\* it, gives INVALID.
C21_SoundValid ==
    \A request \in VerifyRequests :
        LET r == VerifyResult(request)
        IN /\ r.res.status = StatusValid
              => /\ Parsed(request) /\ KeyResolves(request)
                 /\ HashMatches(request)
                 /\ SidecarSignature(request)
                       = RsaPssSign(ResolvedKey(request).id,
                                    EncodeUtf8(CurrentHash(request)))
                 /\ ResolvedKey(request) # PubKey(ForeignKey)
                    => WasSigned(ResolvedKey(request), CurrentHash(request))
           /\ (/\ Parsed(request) /\ KeyResolves(request) /\ HashMatches(request)
               /\ ResolvedKey(request) # PubKey(ForeignKey)
               /\ ~WasSigned(ResolvedKey(request), CurrentHash(request)))
              => r.res.status = StatusInvalid

\* the key holder signed two contents; the outsider has put the first
\* content, its hash and its signature back, and the verdict is VALID for it
C21_Witness ==
    LET request == BatchVerifyRequest(DocTxt)
    IN /\ VerifyResult(request).res.status = StatusValid
       /\ ResolvedKey(request) = PubKey(OldKey)
       /\ signLog[Sidecar].signed
       /\ fs[DocTxt] # signLog[Sidecar].content
       /\ fs[Sidecar] # signLog[Sidecar].sidecar
       /\ fs[Sidecar].value.metadata.document_hash # signLog[Sidecar].hash
       /\ Cardinality(issued) = 2

\* the hash was rewritten to match a content that was never signed, under
\* the signature of the key holder: INVALID
C21_Rewritten ==
    LET request == BatchVerifyRequest(DocTxt)
    IN /\ Parsed(request) /\ HashMatches(request)
       /\ SidecarSignature(request).key = OldKey
       /\ ~WasSigned(PubKey(OldKey), CurrentHash(request))
       /\ VerifyResult(request).res.status = StatusInvalid

\* what verifier.verify_document(request) returns when the call comes right
\* after verifier.verify_document(earlier)
VerifyResultAfter(earlier, request) ==
    VerifyDocument(VerifyResult(earlier).km, request, fs)

\* C22 (the key of a verifier is the one loaded at construction): a
\* verify_document call that carries no public_key_path gives the same
\* result for the same request and files whatever verify_document call was
\* made on the verifier before it.
C22_KeyOfConstruction ==
    \A request \in VerifyRequests : \A earlier \in VerifyRequests :
        (verifier.constructed /\ request.public_key_path = NoPath)
        => VerifyResultAfter(earlier, request).res = VerifyResult(request).res

\* the metadata fields that are not the hash
UnsignedFields == DOMAIN FieldValues

\* the values a field is changed to: the well-formed ones, and for the date
\* also a string that is no ISO date
ChangedValues(field) ==
    IF field = "signature_date" THEN FieldValues[field] \cup {NotIso}
    ELSE FieldValues[field]

\* the request is verified against the sidecar of a.txt
ReadsSidecar(request) == ResolvePaths(request).signature_file_path = Sidecar

\* what verify_document returns once the field of the sidecar is changed
VerifyResultWith(request, field, value) ==
    VerifyDocument(verifier.key_manager, request, WithField(fs, field, value))

\* the value SignatureMetadata.from_dict gives the field
Loaded(field, value) == IF field = "signature_date" THEN FromIsoFormat(value) ELSE value

\* C23 as stated (only the hash and the signature are authenticated): the
\* status depends on the sidecar only through 'signature' and
\* metadata.document_hash, so changing any other metadata field leaves the
\* status as it was.
C23_Original ==
    \A request \in VerifyRequests : \A field \in UnsignedFields :
        \A value \in ChangedValues(field) :
            (verifier.constructed /\ Rewritable(fs) /\ ReadsSidecar(request))
            => VerifyResultWith(request, field, value).res.status
                   = VerifyResult(request).res.status

\* C23 (only the hash and the signature are authenticated), amended: the
\* status depends on the sidecar through 'signature', metadata.document_hash
\* and whether the metadata can be loaded; changing signer_name,
\* signer_email, signature_algorithm, key_fingerprint or additional_info, or
\* signature_date to another ISO date, leaves every status as it was, a
\* VALID verdict stays VALID and the result's metadata carries the changed
\* value (the recorded key_fingerprint is never compared with the resolved
\* key); a signature_date that is no ISO date makes a sidecar that passed
\* Parse INVALID.
C23_HashAndSignatureOnly ==
    \A request \in VerifyRequests : \A field \in UnsignedFields :
        (verifier.constructed /\ Rewritable(fs) /\ ReadsSidecar(request))
        => /\ \A value \in FieldValues[field] :
                LET r == VerifyResultWith(request, field, value)
                IN /\ r.res.status = VerifyResult(request).res.status
                   /\ r.res.success = VerifyResult(request).res.success
                   /\ r.res.status = StatusValid
                      => r.res.metadata[field] = Loaded(field, value)
           /\ Parsed(request)
              => VerifyResultWith(request, "signature_date", NotIso).res.status
                     = StatusInvalid

\* the signer's name, the date and the key fingerprint of the sidecar have
\* been rewritten, the fingerprint to that of the foreign key, and the
\* verdict under the key holder's public key is VALID
C23_Witness ==
    LET request == BatchVerifyRequest(DocTxt)
        r == VerifyResult(request)
    IN /\ verifier.constructed /\ Rewritable(fs)
       /\ signLog[Sidecar].signed
       /\ fs[Sidecar].value.metadata.signer_name = "Mallory"
       /\ fs[Sidecar].value.metadata.signature_date = IsoFormat(MaxClock + 1)
       /\ fs[Sidecar].value.metadata.key_fingerprint
             # GetPublicKeyFingerprint(verifier.key_manager)
       /\ ResolvedKey(request) = PubKey(OldKey)
       /\ r.res.status = StatusValid
       /\ r.res.metadata.signer_name = "Mallory"
       /\ r.res.metadata.signature_date = MaxClock + 1
       /\ VerifyResultWith(request, "additional_info", NoteInfo).res.status
             = StatusValid

\* a sidecar written by a successful sign_document is at path p, as written
SidecarWritten(p) == signLog[p].signed /\ SidecarUntouched(p)

\* C24 (a sidecar is read-only once written): once a sidecar has been written
\* for a document, no later sign_document or sign_batch changes its content
\* (verify_document, verify_batch, extract_metadata_from_signature and
\* get_signature_info write no file at all).
C24_SidecarReadOnly ==
    \A p \in SidecarPaths :
        (signer.constructed /\ SidecarWritten(p))
        => /\ \A request \in SignRequests : SignResult(request).files[p] = fs[p]
           /\ \A document_paths \in SignBatches :
                 SignBatchResult(document_paths).files[p] = fs[p]

\* a sign_document that fails, on additional_info that json cannot
\* serialise, has destroyed the sidecar written before
C24_Destroyed ==
    \E request \in SignRequests :
        LET p == RequestedSidecarPath(request)
        IN /\ signer.constructed
           /\ p \in SidecarPaths /\ SidecarWritten(p)
           /\ ~SignResult(request).res.success
           /\ SignResult(request).files[p] = BadJson

\* the output_path overrides tried for a.txt: a '.sig' path, and the path of
\* a file that does not end in '.sig'
OutputPaths == {AltSig, DocBad}

\* sign_document of a.txt with the sidecar sent to output_path
SignInto(output_path) ==
    SignResult(SignatureRequest(DocTxt, "Ada", "ada@example.com", output_path,
                                EmptyInfo))

\* verify_document(signed_document_path, original_document_path) right after
\* SignInto(output_path), by the verifier the callers hold
VerifySigned(output_path, signed_document_path, original_document_path) ==
    VerifyDocument(verifier.key_manager,
                   VerificationRequest(signed_document_path, original_document_path,
                                       NoPath),
                   SignInto(output_path).files)

\* the verifier holds the public key of the signer's pair
SamePair ==
    /\ signer.constructed /\ verifier.constructed
    /\ verifier.key_manager.public_key = PublicOf(signer.key_manager.private_key)

\* C25 (round trip through an explicit sidecar path): after a.txt is signed
\* successfully with output_path P other than a.txt, verify_document with
\* signed_document_path = P and original_document_path = a.txt, by a verifier
\* with the signer's public key and with nothing modified, returns VALID and
\* the hash signed when P ends in '.sig'; when signed_document_path does not
\* end in '.sig' it is taken as the document, the sidecar is looked for at
\* <signed_document_path>.sig and original_document_path is ignored.
C25_ExplicitSidecar ==
    /\ \A P \in OutputPaths :
          (SamePair /\ SignInto(P).res.success)
          => LET v == VerifySigned(P, P, DocTxt)
             IN IF EndsWithSig(P)
                THEN /\ v.res.success /\ v.res.status = StatusValid
                     /\ v.res.metadata = SignInto(P).res.metadata
                ELSE /\ v.res = VerifySigned(P, P, NoPath).res
                     /\ v.res = VerifySigned(P, P, DocGone).res
                     /\ ~Exists(SignInto(P).files, GetSignatureFilePath(P))
                        => v.res.status = StatusInvalid
    /\ \A signed \in {DocTxt, DocBad, DirPath} : \A original \in {DocTxt, DocGone, AltSig} :
          LET request == VerificationRequest(signed, original, NoPath)
          IN /\ ResolvePaths(request).document_path = signed
             /\ ResolvePaths(request).signature_file_path = GetSignatureFilePath(signed)
             /\ verifier.constructed
                => VerifyResult(request).res = VerifyResult(BatchVerifyRequest(signed)).res

\* a.txt, not empty, would be signed into s.sig and verify as VALID through
\* it, and would be signed into c.doc and not be found there; meanwhile a
\* request on a.txt with an original_document_path is VALID through a.txt.sig
C25_Witness ==
    /\ SamePair
    /\ fs[DocTxt] = Raw(<<0, 1>>)
    /\ ~Exists(fs, AltSig)
    /\ SignInto(AltSig).res.success
    /\ VerifySigned(AltSig, AltSig, DocTxt).res.status = StatusValid
    /\ SignInto(DocBad).res.success
    /\ VerifySigned(DocBad, DocBad, DocTxt).res.status = StatusInvalid
    /\ VerifyResult(VerificationRequest(DocTxt, DocGone, NoPath)).res.status = StatusValid

\* the additional_info mappings callers supply: none, a key of their own,
\* and mappings that use the keys sign_document fills in itself
TypeInfo == [k \in {"document_type", "tipo"} |->
                IF k = "document_type" THEN "zip" ELSE "prueba"]
NameInfo == [k \in {"document_name"} |-> "b.pdf"]
CallerInfos == {EmptyInfo, NoteInfo, TypeInfo, NameInfo}

DetectedKeys == {"document_type", "document_name"}

\* C26 (additional_info): after a successful sign_document,
\* metadata.additional_info['document_type'] is the type detected from the
\* extension and ['document_name'] is the base name of the document, for
\* every additional_info mapping the caller supplies, and every entry the
\* caller supplies under another key is kept as it is.
C26_AdditionalInfo ==
    \A info \in CallerInfos : \A d \in {DocTxt, DocBad} :
        LET request == SignatureRequest(d, "Ada", "ada@example.com", NoPath, info)
            r == SignResult(request)
        IN (signer.constructed /\ r.res.success)
           => /\ DetectedKeys \subseteq DOMAIN r.res.metadata.additional_info
              /\ r.res.metadata.additional_info["document_type"]
                    = DetectDocumentType(d)
              /\ r.res.metadata.additional_info["document_name"] = BaseName(d)
              /\ \A k \in DOMAIN info \ DetectedKeys :
                    /\ k \in DOMAIN r.res.metadata.additional_info
                    /\ r.res.metadata.additional_info[k] = info[k]

\* the caller's 'document_type' has replaced the detected one in a sidecar
\* that sign_document reports as written
C26_Overridden ==
    LET r == SignResult(SignatureRequest(DocTxt, "Ada", "ada@example.com", NoPath,
                                         TypeInfo))
    IN /\ signer.constructed /\ r.res.success
       /\ r.res.metadata.additional_info["document_type"] = "zip"
       /\ r.res.metadata.additional_info["tipo"] = "prueba"
       /\ r.files[Sidecar].value.metadata.additional_info["document_type"] = "zip"

\* the contents hashed: every byte string of at most MaxLength bytes
RECURSIVE ByteStrings(_)
ByteStrings(n) ==
    IF n = 0 THEN {<<>>}
    ELSE LET shorter == ByteStrings(n - 1)
         IN shorter \cup {Append(s, b) : s \in shorter, b \in Bytes}

HashContents == ByteStrings(MaxLength)
ChunkSizes == 1..MaxLength

\* C27 (determinism of hashing): the digest of a content fed to the hash in
\* chunks of a fixed size is the digest of the whole content, for every
\* chunk size and every length, the empty content and the exact multiples of
\* the chunk size included; the hash routine gives that digest with the
\* chunk size it uses; two files with the same content have the same hash;
\* and the signer's and the verifier's routines agree on every file.
C27_HashDeterminism ==
    /\ \A bytes \in HashContents :
          /\ \A chunk_size \in ChunkSizes :
                HexDigestOf(HashInChunks(bytes, <<>>, chunk_size)) = HexDigestOf(bytes)
          /\ HashUpdateAll(bytes, <<>>) = HashInChunks(bytes, <<>>, ChunkSize)
          /\ Hex(Digest(Raw(bytes))) = HexDigestOf(bytes)
    /\ \A p \in AllPaths \cup {DocGone} :
          CalculateDocumentHash(fs, p) = VerifierCalculateDocumentHash(fs, p)
    /\ \A p \in AllPaths : \A q \in AllPaths :
          fs[p] = fs[q] => CalculateDocumentHash(fs, p) = CalculateDocumentHash(fs, q)

\* a document read in more than one chunk was hashed by the signer, and the
\* verifier, hashing it again, finds the same digest
C27_Witness ==
    /\ fs[DocTxt] = Raw(<<0, 1>>)
    /\ Len(fs[DocTxt].bytes) > ChunkSize
    /\ signLog[Sidecar].signed /\ SidecarUntouched(Sidecar)
    /\ signLog[Sidecar].hash = CalculateDocumentHash(fs, DocTxt).value
    /\ VerifierCalculateDocumentHash(fs, DocTxt).value
          = fs[Sidecar].value.metadata.document_hash
    /\ VerifyResult(BatchVerifyRequest(DocTxt)).res.status = StatusValid


\* one call on a KeyManager: generate_key_pair, load_private_key on a path
\* with a passphrase, or load_public_key on a path; the manager after it
ManagerCalls(km) ==
    {GenerateKeyPair(km, NewKey(nextKey))}
    \cup {LoadPrivateKey(km, fs, p, password).km :
            p \in LoadPaths, password \in Passwords}
    \cup {LoadPublicKey(km, fs, p).km : p \in LoadPaths \cup {Pub2Path}}

\* the managers that at most n calls lead to from a new KeyManager
RECURSIVE ManagersAfter(_)
ManagersAfter(n) ==
    IF n = 0 THEN {NewKeyManager}
    ELSE LET before == ManagersAfter(n - 1)
         IN before \cup UNION {ManagerCalls(km) : km \in before}

\* C28 (key pair invariant): in every state reachable by any sequence of
\* generate_key_pair, load_private_key and load_public_key calls on one
\* KeyManager, a manager that holds a private key holds the public key
\* derived from it.
C28_KeyPairInvariant ==
    \A km \in ManagersAfter(MaxCalls) :
        km.private_key # NoKey => km.public_key = PublicOf(km.private_key)

\* generate_key_pair and then load_public_key on the public key file of
\* someone else: the manager signs with one key and reports, saves and
\* verifies with another
C28_Mismatched ==
    LET km == LoadPublicKey(GenerateKeyPair(NewKeyManager, NewKey(nextKey)),
                            fs, Pub2Path).km
    IN /\ km.private_key = PrivKey(NewKey(nextKey))
       /\ km.public_key = PubKey(ForeignKey)
       /\ GetPublicKeyFingerprint(km)
             # GetPublicKeyFingerprint(GenerateKeyPair(NewKeyManager, NewKey(nextKey)))


\* C29 (result consistency): every SignatureResult verify_document returns
\* has success=True exactly when its status is VALID, and a non-empty error
\* when its status is not VALID; every SignatureResult sign_document returns
\* with success=True has status VALID, metadata and signed_file_path, and
\* with success=False has no status, no metadata and no signed_file_path.
\* Both calls return: no exception leaves them.
C29_ResultConsistency ==
    /\ verifier.constructed
       => \A request \in VerifyRequests :
             LET res == VerifyResult(request).res
             IN /\ ~res.raised
                /\ res.success <=> res.status = StatusValid
                /\ res.status # StatusValid => res.error # ""
    /\ signer.constructed
       => \A request \in SignRequests :
             LET res == SignResult(request).res
             IN /\ ~res.raised
                /\ res.success
                   => /\ res.status = StatusValid
                      /\ res.metadata # NoMetadata
                      /\ res.signed_file_path # NoPath
                /\ ~res.success
                   => /\ res.status = NoStatus
                      /\ res.metadata = NoMetadata
                      /\ res.signed_file_path = NoPath

\* a state in which verify_document would return each of VALID, TAMPERED or
\* INVALID with the sidecar's metadata, and KEY_MISMATCH, and sign_document
\* would succeed on one request, be turned down on another and fail in its
\* exception handler on a third
C29_Witness ==
    /\ verifier.constructed /\ signer.constructed
    /\ \E request \in VerifyRequests : VerifyResult(request).res.status = StatusValid
    /\ \E request \in VerifyRequests :
          /\ VerifyResult(request).res.status \in {StatusTampered, StatusInvalid}
          /\ VerifyResult(request).res.metadata # NoMetadata
    /\ \E request \in VerifyRequests :
          VerifyResult(request).res.status = StatusKeyMismatch
    /\ \E request \in SignRequests : SignResult(request).res.success
    /\ \E request \in SignRequests :
          /\ ~SignResult(request).res.success
          /\ SignResult(request).stages = <<"exists", "detect">>
    /\ \E request \in SignRequests :
          /\ ~SignResult(request).res.success
          /\ SignResult(request).stages = <<"exists", "detect", "hash", "sign", "save">>


\* the requests sign_document may have to turn down: a document that is
\* gone, was deleted or has an extension that is not supported, with the
\* sidecar at the default path or at an explicit one
RejectRequests ==
    {SignatureRequest(d, "Ada", "ada@example.com", o, a) :
        d \in {DocTxt, DocBad, DocGone},
        o \in {NoPath, AltSig, Sidecar},
        a \in {EmptyInfo, BlobInfo}}

\* sign_document turns the request down at its first two checks
Rejected(request) ==
    \/ ~Exists(fs, request.document_path)
    \/ DetectDocumentType(request.document_path) = NoType

\* C30 (rejected signing changes nothing): when the document does not exist
\* or its type is unsupported, sign_document returns success=False before it
\* hashes, signs or saves, and every file is what it was: none is created,
\* modified or deleted, and a sidecar already at <document_path>.sig or at
\* output_path keeps its content.
C30_RejectedSigning ==
    signer.constructed
    => \A request \in RejectRequests :
          Rejected(request)
          => /\ ~SignResult(request).res.success
             /\ SignResult(request).stages \in {<<"exists">>, <<"exists", "detect">>}
             /\ SignResult(request).files = fs

\* the signed document was deleted and its sidecars are still there: signing
\* it again is turned down and leaves both sidecars as they are, and so does
\* signing the unsupported document into one of them
C30_Witness ==
    /\ signer.constructed
    /\ ~Exists(fs, DocTxt)
    /\ fs[Sidecar].kind = "json" /\ fs[AltSig].kind = "json"
    /\ \A o \in {NoPath, AltSig} :
          LET r == SignResult(SignatureRequest(DocTxt, "Ada", "ada@example.com",
                                               o, EmptyInfo))
          IN ~r.res.success /\ r.stages = <<"exists">> /\ r.files = fs
    /\ LET r == SignResult(SignatureRequest(DocBad, "Ada", "ada@example.com",
                                            AltSig, EmptyInfo))
       IN ~r.res.success /\ r.stages = <<"exists", "detect">> /\ r.files = fs

====
